---------------------------- MODULE Spec2Model ----------------------------
(***************************************************************************)
(* AgenticMCP: the permission / query core of the tool-invocation server.  *)
(*                                                                         *)
(*   src/src/agenticmcp/database.py     identifier sanitizer, builders     *)
(*   src/src/agenticmcp/permissions.py  PermissionChecker                  *)
(*   src/src/agenticmcp/config.py       PermissionsConfig, Settings        *)
(*                                                                         *)
(* Text is modelled as a sequence of pieces.  An identifier is a sequence  *)
(* of one-character strings; SQL keywords and punctuation are pieces of    *)
(* their own (" WHERE ", " = ", ...), so that concatenation is \o and a    *)
(* substring test on a keyword is a test on a piece.                       *)
(* An optional value (Python's `x | None`) is None or Some(x).             *)
(***************************************************************************)
EXTENDS Integers, Sequences, FiniteSets, TLC

VARIABLES
    document,   \* the permissions file on disk, None when there is none
    settings,   \* config.py _settings: the process-wide Settings
    permissions,\* config.py _permissions: the process-wide PermissionsConfig
    checker,    \* permissions.py: the fields of the PermissionChecker
    store,      \* the tables that exist in the database
    executed,   \* the statements handed to execute_query by the last request
    call,       \* the operation invoked last, with its arguments
    ret         \* what that operation returned or raised

vars == <<document, settings, permissions, checker, store, executed, call, ret>>

----------------------------------------------------------------------------
(* Python values *)

None == << >>
Some(x) == <<x>>
IsNone(o) == o = None
Get(o) == o[1]

\* a normal return of `v`, and an exception of type `exc` with message `msg`
Return(v) == [raised |-> "none", value |-> v]
Raise(exc, msg) == [raised |-> exc, message |-> msg]
Returned(r) == r.raised = "none"

\* s contains the piece p
Contains(s, p) == \E i \in 1..Len(s) : s[i] = p

\* the set of sequences over S of length at most n
SeqsUpTo(S, n) == UNION {[1..m -> S] : m \in 0..n}

RECURSIVE Join(_, _)
\* sep.join(ss) for a sequence ss of texts
Join(sep, ss) ==
    IF ss = << >> THEN << >>
    ELSE IF Len(ss) = 1 THEN ss[1]
    ELSE ss[1] \o sep \o Join(sep, Tail(ss))

----------------------------------------------------------------------------
(* Bounds *)

\* longest identifier handed to the sanitizer
MaxIdentLen == 3

\* the small row caps (Settings.max_query_rows) explored: -1..MaxCap
MaxCap == 2

\* most rows in a result handed to filter_result_columns
MaxResultRows == 2

\* most conditions in a where dict handed to a query builder
MaxWhere == 2

\* Settings.max_query_rows
DefaultMaxQueryRows == 1000

----------------------------------------------------------------------------
(* database.py: DatabaseManager.sanitize_identifier *)

AsciiLetters == {"a", "Z", "u", "s", "e", "r", "o", "d", "i"}
AsciiDigits == {"7"}
\* characters outside ASCII for which str.isalnum() is true as well
UnicodeAlnum == {"é"}
OtherChars == {" ", ";"}
Chars == AsciiLetters \cup AsciiDigits \cup UnicodeAlnum \cup {"_", "-"} \cup OtherChars

\* str.replace(old, "") for a one-character old
replace_char(s, old) == SelectSeq(s, LAMBDA c : c # old)

\* str.isalnum(): at least one character, and every character alphanumeric
isalnum(s) ==
    /\ Len(s) > 0
    /\ \A i \in 1..Len(s) : s[i] \in AsciiLetters \cup AsciiDigits \cup UnicodeAlnum

sanitize_identifier(identifier) ==
    IF ~ isalnum(replace_char(replace_char(identifier, "_"), "-"))
    THEN Raise("ValueError", <<"Invalid identifier: ">> \o identifier)
    ELSE Return(<<"\"">> \o identifier \o <<"\"">>)

----------------------------------------------------------------------------
(* database.py: DatabaseManager.build_select_query *)

\* f"${i}": the placeholder of the i-th parameter
Placeholder(i) == <<"$", ToString(i)>>

\* the first exception among the results of a sequence of calls, if any
FirstRaised(results) ==
    LET failed == SelectSeq(results, LAMBDA r : r.raised # "none")
    IN  IF failed = << >> THEN None ELSE Some(failed[1])

\* Python truthiness of an optional list, dict or str, and of an optional int
Truthy(o) == ~ IsNone(o) /\ Get(o) # << >>
TruthyInt(o) == ~ IsNone(o) /\ Get(o) # 0

\* the conditions `"key" = $n` of a where dict, numbered from first
Conditions(safe_keys, first) ==
    [i \in 1..Len(safe_keys) |->
        safe_keys[i].value \o <<" = ">> \o Placeholder(first + i - 1)]

\* the values of a dict, in key order
Values(items) == [i \in 1..Len(items) |-> items[i][2]]

build_select_query(table, columns, where, order_by, limit, offset) ==
    LET safe_table == sanitize_identifier(table)
        cols == IF Truthy(columns) THEN Get(columns) ELSE << >>
        safe_cols == [i \in 1..Len(cols) |-> sanitize_identifier(cols[i])]
        items == IF Truthy(where) THEN Get(where) ELSE << >>
        safe_keys == [i \in 1..Len(items) |-> sanitize_identifier(items[i][1])]
        safe_order == IF Truthy(order_by)
                      THEN <<sanitize_identifier(Get(order_by))>> ELSE << >>
        raised == FirstRaised(<<safe_table>> \o safe_cols \o safe_keys
                                \o safe_order)
        safe_columns == IF Truthy(columns)
                        THEN Join(<<", ">>,
                                  [i \in 1..Len(cols) |-> safe_cols[i].value])
                        ELSE <<"*">>
        query1 == <<"SELECT ">> \o safe_columns \o <<" FROM ">>
                    \o safe_table.value
        params1 == Values(items)
        query2 == IF Truthy(where)
                  THEN query1 \o <<" WHERE ">>
                         \o Join(<<" AND ">>, Conditions(safe_keys, 1))
                  ELSE query1
        query3 == IF Truthy(order_by)
                  THEN query2 \o <<" ORDER BY ">> \o safe_order[1].value
                  ELSE query2
        params2 == IF TruthyInt(limit)
                   THEN params1 \o <<offset, Get(limit)>> ELSE params1
        query4 == IF TruthyInt(limit)
                  THEN query3 \o <<" OFFSET ">> \o Placeholder(Len(params2) - 1)
                         \o <<" LIMIT ">> \o Placeholder(Len(params2))
                  ELSE query3
    IN  IF ~ IsNone(raised) THEN Get(raised)
        ELSE Return([query |-> query4, params |-> params2])

----------------------------------------------------------------------------
(* database.py: build_insert_query, build_update_query, build_delete_query *)

\* f"${i + 1}" for i in range(n)
Placeholders(n) == [i \in 1..n |-> Placeholder(i)]

\* `if returning:` followed by the sanitizer
SafeReturning(returning) ==
    IF Truthy(returning) THEN <<sanitize_identifier(Get(returning))>> ELSE << >>

\* query += f" RETURNING {safe_returning}"
WithReturning(query, safe_returning) ==
    IF safe_returning # << >>
    THEN query \o <<" RETURNING ">> \o safe_returning[1].value
    ELSE query

build_insert_query(table, data, returning) ==
    LET safe_table == sanitize_identifier(table)
        safe_cols == [i \in 1..Len(data) |-> sanitize_identifier(data[i][1])]
        safe_returning == SafeReturning(returning)
        raised == FirstRaised(<<safe_table>> \o safe_cols \o safe_returning)
        safe_columns == Join(<<", ">>,
                             [i \in 1..Len(data) |-> safe_cols[i].value])
        placeholders == Join(<<", ">>, Placeholders(Len(data)))
        params == Values(data)
        query == <<"INSERT INTO ">> \o safe_table.value \o <<" (">>
                   \o safe_columns \o <<") VALUES (">> \o placeholders
                   \o <<")">>
    IN  IF ~ IsNone(raised) THEN Get(raised)
        ELSE Return([query |-> WithReturning(query, safe_returning),
                     params |-> params])

\* build_update_query that restarts the numbering in the WHERE clause
build_update_query_renumbered(table, data, where, returning) ==
    LET safe_table == sanitize_identifier(table)
        safe_set == [i \in 1..Len(data) |-> sanitize_identifier(data[i][1])]
        safe_keys == [i \in 1..Len(where) |-> sanitize_identifier(where[i][1])]
        safe_returning == SafeReturning(returning)
        raised == FirstRaised(<<safe_table>> \o safe_set \o safe_keys
                                \o safe_returning)
        query == <<"UPDATE ">> \o safe_table.value \o <<" SET ">>
                   \o Join(<<", ">>, Conditions(safe_set, 1))
                   \o <<" WHERE ">>
                   \o Join(<<" AND ">>, Conditions(safe_keys, 1))
    IN  IF ~ IsNone(raised) THEN Get(raised)
        ELSE Return([query |-> WithReturning(query, safe_returning),
                     params |-> Values(data) \o Values(where)])

build_update_query(table, data, where, returning) ==
    LET safe_table == sanitize_identifier(table)
        safe_set == [i \in 1..Len(data) |-> sanitize_identifier(data[i][1])]
        safe_keys == [i \in 1..Len(where) |-> sanitize_identifier(where[i][1])]
        safe_returning == SafeReturning(returning)
        raised == FirstRaised(<<safe_table>> \o safe_set \o safe_keys
                                \o safe_returning)
        set_parts == Conditions(safe_set, 1)
        conditions == Conditions(safe_keys, Len(data) + 1)
        params == Values(data) \o Values(where)
        query == <<"UPDATE ">> \o safe_table.value \o <<" SET ">>
                   \o Join(<<", ">>, set_parts)
                   \o <<" WHERE ">> \o Join(<<" AND ">>, conditions)
    IN  IF ~ IsNone(raised) THEN Get(raised)
        ELSE Return([query |-> WithReturning(query, safe_returning),
                     params |-> params])

build_delete_query(table, where, returning) ==
    LET safe_table == sanitize_identifier(table)
        safe_keys == [i \in 1..Len(where) |-> sanitize_identifier(where[i][1])]
        safe_returning == SafeReturning(returning)
        raised == FirstRaised(<<safe_table>> \o safe_keys \o safe_returning)
        conditions == Conditions(safe_keys, 1)
        params == Values(where)
        query == <<"DELETE FROM ">> \o safe_table.value
                   \o <<" WHERE ">> \o Join(<<" AND ">>, conditions)
    IN  IF ~ IsNone(raised) THEN Get(raised)
        ELSE Return([query |-> WithReturning(query, safe_returning),
                     params |-> params])

----------------------------------------------------------------------------
(* config.py: RoleDef, ColumnDef, TableDef, PermissionsConfig *)

\* a dict with no key
EmptyMap == [k \in {} |-> None]

\* RoleDef(): the field defaults of config.py lines 32-36
RoleDef == [description |-> None, tables |-> << >>, operations |-> << >>,
            columns |-> EmptyMap, row_filters |-> EmptyMap]

\* the role that validate_roles adds
SynthesizedAdmin == [description |-> <<"Full access to all tables">>,
                     tables |-> <<"*">>, operations |-> <<"*">>,
                     columns |-> EmptyMap, row_filters |-> EmptyMap]

ColumnDef(name, visible_to) == [name |-> name, visible_to |-> visible_to]

TableDef(columns, row_filter) ==
    [primary_key |-> "id", columns |-> columns, row_filter |-> row_filter]

\* the field validator of "roles": it runs on a roles value that was given
validate_roles(v) ==
    IF "admin" \notin DOMAIN v
    THEN [r \in DOMAIN v \cup {"admin"} |->
              IF r = "admin" THEN SynthesizedAdmin ELSE v[r]]
    ELSE v

\* PermissionsConfig(**data): a key absent from data takes the field default,
\* and pydantic does not run a field validator on a default
PermissionsConfig(data) ==
    [default_role |-> IF IsNone(data.default_role) THEN "reader"
                      ELSE Get(data.default_role),
     roles |-> IF IsNone(data.roles) THEN EmptyMap
               ELSE validate_roles(Get(data.roles)),
     tables |-> IF IsNone(data.tables) THEN EmptyMap ELSE Get(data.tables)]

\* the parsed document with no key at all (`yaml.safe_load(f) or {}`)
EmptyDocument == [default_role |-> None, roles |-> None, tables |-> None]

\* Settings.load_permissions: file is None when no permissions file exists
load_permissions(file) ==
    IF ~ IsNone(file) THEN PermissionsConfig(Get(file))
    ELSE PermissionsConfig(EmptyDocument)

----------------------------------------------------------------------------
(* permissions.py: PermissionChecker *)

\* roles.get(role_name, roles.get(default_role, RoleDef()))
_load_config(s, p) ==
    [permissions |-> p,
     role_name |-> s.role,
     user_id |-> s.user_id,
     tenant_id |-> s.tenant_id,
     role |-> IF s.role \in DOMAIN p.roles THEN p.roles[s.role]
              ELSE IF p.default_role \in DOMAIN p.roles
                   THEN p.roles[p.default_role]
                   ELSE RoleDef,
     max_rows |-> s.max_query_rows]

\* is_admin without the test of the role name
is_admin_wildcard_only(self) == Contains(self.role.tables, "*")


is_admin(self) ==
    self.role_name = "admin" \/ Contains(self.role.tables, "*")

can_access_table(self, table_name) ==
    IF is_admin(self) THEN TRUE
    ELSE IF Contains(self.role.tables, table_name) THEN TRUE
    ELSE IF Contains(self.role.tables, "*") THEN TRUE
    ELSE FALSE

can_read(self, table_name) ==
    IF is_admin(self) THEN TRUE
    ELSE IF ~ can_access_table(self, table_name) THEN FALSE
    ELSE Contains(self.role.operations, "*")
            \/ Contains(self.role.operations, "read")

\* can_write that tests the "read" verb
can_write_tests_read(self, table_name) ==
    IF self.role_name = "admin" \/ Contains(self.role.tables, "*") THEN TRUE
    ELSE IF ~ Contains(self.role.tables, table_name) THEN FALSE
    ELSE Contains(self.role.operations, "*")
            \/ Contains(self.role.operations, "read")


can_write(self, table_name) ==
    IF is_admin(self) THEN TRUE
    ELSE IF ~ can_access_table(self, table_name) THEN FALSE
    ELSE Contains(self.role.operations, "*")
            \/ Contains(self.role.operations, "write")

can_execute_raw_query(self) == is_admin(self)

validate_operation(self, operation, table_name) ==
    IF operation = "read" THEN can_read(self, table_name)
    ELSE IF operation \in {"insert", "update", "delete"}
         THEN can_write(self, table_name)
    ELSE IF operation = "query" THEN can_execute_raw_query(self)
    ELSE FALSE

\* check_permission that asks for read access whatever the operation
check_permission_read_only(self, operation, table_name) ==
    IF ~ (self.role_name = "admin" \/ Contains(self.role.tables, "*")
            \/ (Contains(self.role.tables, table_name)
                  /\ (Contains(self.role.operations, "*")
                        \/ Contains(self.role.operations, "read"))))
    THEN Raise("PermissionError",
               <<"Role '", self.role_name, "' is not allowed to perform '",
                 operation, "' on table '", table_name, "'">>)
    ELSE Return(None)


\* f"Role '{role_name}' is not allowed to perform '{operation}' on table
\* '{table_name}'"
check_permission(self, operation, table_name) ==
    IF ~ validate_operation(self, operation, table_name)
    THEN Raise("PermissionError",
               <<"Role '", self.role_name, "' is not allowed to perform '",
                 operation, "' on table '", table_name, "'">>)
    ELSE Return(None)

\* the loop of get_allowed_columns over table_def.columns
visible_columns(self, columns) ==
    LET visible(col) ==
            IF IsNone(col.visible_to) \/ Contains(Get(col.visible_to), "*")
            THEN TRUE
            ELSE Contains(Get(col.visible_to), self.role_name)
        kept == SelectSeq(columns, visible)
    IN  [i \in 1..Len(kept) |-> kept[i].name]

\* None stands for "all columns"
get_allowed_columns(self, table_name) ==
    IF is_admin(self) THEN None
    ELSE IF table_name \in DOMAIN self.role.columns
         THEN Some(self.role.columns[table_name])
    ELSE IF table_name \in DOMAIN self.permissions.tables
         THEN LET table_def == self.permissions.tables[table_name]
                  allowed == visible_columns(self, table_def.columns)
              IN  IF allowed # << >> THEN Some(allowed) ELSE None
    ELSE None

\* str.replace(old, new) on a text whose placeholders are pieces
replace(text, old, new) ==
    [i \in 1..Len(text) |-> IF text[i] = old THEN new ELSE text[i]]

\* str(v): Settings.user_id and Settings.tenant_id are `str | None`, and
\* str of a str is that str
str(v) == v

\* _substitute_filter_vars that forgets {tenant_id}
_substitute_filter_vars_user_only(self, filter_template) ==
    IF self.user_id # << >>
    THEN [i \in 1..Len(filter_template) |->
              IF filter_template[i] = "{user_id}" THEN self.user_id[1]
              ELSE filter_template[i]]
    ELSE filter_template


_substitute_filter_vars(self, filter_template) ==
    LET result1 == IF ~ IsNone(self.user_id)
                   THEN replace(filter_template, "{user_id}",
                                str(Get(self.user_id)))
                   ELSE filter_template
    IN  IF ~ IsNone(self.tenant_id)
        THEN replace(result1, "{tenant_id}", str(Get(self.tenant_id)))
        ELSE result1

get_row_filter(self, table_name) ==
    IF is_admin(self) THEN None
    ELSE IF table_name \in DOMAIN self.role.row_filters
         THEN Some(_substitute_filter_vars(self,
                                           self.role.row_filters[table_name]))
    ELSE IF /\ table_name \in DOMAIN self.permissions.tables
            /\ LET table_def == self.permissions.tables[table_name]
               IN  /\ ~ IsNone(table_def.row_filter)
                   /\ Get(table_def.row_filter) # EmptyMap
                   /\ self.role_name \in DOMAIN Get(table_def.row_filter)
         THEN Some(_substitute_filter_vars(self,
                  Get(self.permissions.tables[table_name].row_filter)
                      [self.role_name]))
    ELSE None

\* filter_row that drops the allowed keys instead of keeping them
filter_row_denylist(row, allowed_columns) ==
    SelectSeq(row, LAMBDA item : ~ (\E i \in 1..Len(allowed_columns) :
                                        allowed_columns[i] = item[1]))


\* a row is a dict: the sequence of its <<key, value>> items in key order
filter_row(row, allowed_columns) ==
    SelectSeq(row, LAMBDA item : Contains(allowed_columns, item[1]))

filter_result_columns(self, table_name, rows) ==
    LET allowed_columns == get_allowed_columns(self, table_name)
    IN  IF IsNone(allowed_columns) THEN rows
        ELSE [i \in 1..Len(rows) |-> filter_row(rows[i], Get(allowed_columns))]

min(a, b) == IF a <= b THEN a ELSE b

\* apply_row_limit without the fallback for a non-positive limit
apply_row_limit_no_floor(self, limit) ==
    IF limit = << >> THEN self.max_rows
    ELSE IF limit[1] <= self.max_rows THEN limit[1] ELSE self.max_rows


apply_row_limit(self, limit) ==
    IF IsNone(limit) THEN self.max_rows
    ELSE LET effective_limit == min(Get(limit), self.max_rows)
         IN  IF effective_limit <= 0 THEN self.max_rows
             ELSE effective_limit

----------------------------------------------------------------------------
(* database.py: the statements DatabaseManager hands to execute_query *)

\* a call execute_query(query, params, fetch)
Statement(query, params, fetch) ==
    [query |-> query, params |-> params, fetch |-> fetch]

list_tables_statement ==
    Statement(<<"SELECT tablename FROM pg_tables WHERE schemaname = 'public'",
                " ORDER BY ", "tablename">>, << >>, "all")

describe_table_statement(table_name) ==
    Statement(<<"SELECT column_name, data_type, is_nullable, column_default",
                " FROM ", "information_schema.columns",
                " WHERE ", "table_schema = 'public' AND table_name = ",
                "$", "1", " ORDER BY ", "ordinal_position">>,
              <<table_name>>, "all")

table_exists_statement(table_name) ==
    Statement(<<"SELECT EXISTS(SELECT 1", " FROM ", "pg_tables",
                " WHERE ", "schemaname = 'public' AND tablename = ",
                "$", "1", ")">>,
              <<table_name>>, "one")

\* the failure of the n-th execute_query of a request: asyncpg raises
StoreError == Raise("PostgresError", <<"connection is closed">>)

\* the tables of the store in the order of `ORDER BY tablename`
TableOrder == <<"orders", "users", "users;">>

\* the rows information_schema.columns holds for every table of the store
StoreColumns ==
    <<[column_name |-> "id", data_type |-> "integer"],
      [column_name |-> "name", data_type |-> "text"],
      [column_name |-> "email", data_type |-> "text"]>>

----------------------------------------------------------------------------
(* str operations the facade applies to statement texts and row filters *)

\* the characters of a str that stands as one piece of a text
characters(s) ==
    CASE s = "users" -> <<"u", "s", "e", "r", "s">>
      [] s = "orders" -> <<"o", "r", "d", "e", "r", "s">>
      [] s = "users;" -> <<"u", "s", "e", "r", "s", ";">>
      [] s = "id" -> <<"i", "d">>
      [] s = "user_id" -> <<"u", "s", "e", "r", "_", "i", "d">>
      [] OTHER -> <<s>>

\* the characters of a text
text_characters(text) ==
    Join(<< >>, [i \in 1..Len(text) |-> characters(text[i])])

\* str.replace(old, new) for a one-piece old and a new of several pieces
replace_text(text, old, new) ==
    Join(<< >>, [i \in 1..Len(text) |->
                    IF text[i] = old THEN new ELSE <<text[i]>>])

\* the positions of a piece in a text
PositionsOf(text, piece) ==
    SelectSeq([i \in 1..Len(text) |-> i], LAMBDA i : text[i] = piece)

\* str.split(sep)
split(text, sep) ==
    LET at == PositionsOf(text, sep)
    IN  [j \in 1..(Len(at) + 1) |->
            SubSeq(text,
                   (IF j = 1 THEN 0 ELSE at[j - 1]) + 1,
                   (IF j = Len(at) + 1 THEN Len(text) + 1 ELSE at[j]) - 1)]

\* str.rsplit(sep, 1)[0]
rsplit_head(text, sep) ==
    LET at == PositionsOf(text, sep)
    IN  IF at = << >> THEN text ELSE SubSeq(text, 1, at[Len(at)] - 1)

\* str.strip(chars): drops the leading and trailing pieces that are in chars
strip(text, chars) ==
    LET kept == {i \in 1..Len(text) : text[i] \notin chars}
    IN  IF kept = {} THEN << >>
        ELSE SubSeq(text, CHOOSE i \in kept : \A j \in kept : i <= j,
                          CHOOSE i \in kept : \A j \in kept : j <= i)

Whitespace == {" ", "\n", "\t"}

\* where[key] = value on a dict kept as its items in insertion order
set_item(items, key, value) ==
    IF \E i \in 1..Len(items) : items[i][1] = key
    THEN [i \in 1..Len(items) |->
             IF items[i][1] = key THEN <<key, value>> ELSE items[i]]
    ELSE Append(items, <<key, value>>)

----------------------------------------------------------------------------
(* tools/tables.py: TablesTool, and tools/query.py: QueryTool *)

\* The store during one request: db.tables are the tables that exist,
\* db.fail is the number of the execute_query that raises (0: none does),
\* db.rows are the rows a statement fetches.
\* An operation yields what it returns or raises and the statements it sent.
Outcome(result, sent) == [ret |-> result, sent |-> sent]

\* {"success": False, "error": ...}
Failure(error) == Return([success |-> FALSE, error |-> error])

\* f"Table '{table}' does not exist"
DoesNotExist(table) == Failure(<<"Table '", table, "' does not exist">>)

_format_value(value) == ToString(value)

_format_results(results) ==
    [i \in 1..Len(results) |->
        [k \in 1..Len(results[i]) |->
            <<results[i][k][1], _format_value(results[i][k][2])>>]]

\* Guarded that probes the store before it checks the permission
Guarded_probe_first(self, db, operation, table, then) ==
    LET allowed == check_permission(self, operation, table)
        probe == table_exists_statement(table)
    IN  IF db.fail = 1 THEN Outcome(StoreError, <<probe>>)
        ELSE IF ~ Returned(allowed) THEN Outcome(allowed, <<probe>>)
        ELSE IF table \notin db.tables
             THEN Outcome(DoesNotExist(table), <<probe>>)
        ELSE then

\* Guarded without the test of the probe's answer
Guarded_no_existence_test(self, db, operation, table, then) ==
    LET allowed == check_permission(self, operation, table)
    IN  IF ~ Returned(allowed) THEN Outcome(allowed, << >>)
        ELSE IF db.fail = 1
             THEN Outcome(StoreError, <<table_exists_statement(table)>>)
        ELSE then

\* the part every table operation starts with: check_permission, then
\* table_exists; `then` is the rest of the operation, which has sent the probe
Guarded(self, db, operation, table, then) ==
    LET allowed == check_permission(self, operation, table)
        probe == table_exists_statement(table)
    IN  IF ~ Returned(allowed) THEN Outcome(allowed, << >>)
        ELSE IF db.fail = 1 THEN Outcome(StoreError, <<probe>>)
        ELSE IF table \notin db.tables
             THEN Outcome(DoesNotExist(table), <<probe>>)
        ELSE then

\* the try/except around the execute_query of an operation
Executed(db, statement, success) ==
    IF db.fail = 2
    THEN Outcome(Failure(StoreError.message),
                 <<table_exists_statement(statement.table), statement.sent>>)
    ELSE Outcome(Return(success),
                 <<table_exists_statement(statement.table), statement.sent>>)

list_tables(self, db) ==
    IF db.fail = 1 THEN Outcome(StoreError, <<list_tables_statement>>)
    ELSE LET all_tables == SelectSeq(TableOrder, LAMBDA t : t \in db.tables)
             accessible == SelectSeq(all_tables,
                                     LAMBDA t : can_access_table(self, t))
         IN  Outcome(Return([success |-> TRUE, count |-> Len(accessible),
                             tables |-> accessible]),
                     <<list_tables_statement>>)

describe_table(self, db, table_name) ==
    LET sent == <<table_exists_statement(table_name),
                  describe_table_statement(table_name)>>
        allowed_columns == get_allowed_columns(self, table_name)
        columns == IF IsNone(allowed_columns) THEN StoreColumns
                   ELSE SelectSeq(StoreColumns,
                                  LAMBDA c : Contains(Get(allowed_columns),
                                                      c.column_name))
    IN  Guarded(self, db, "read", table_name,
            IF db.fail = 2 THEN Outcome(StoreError, sent)
            ELSE Outcome(Return([success |-> TRUE, table |-> table_name,
                                 columns |-> columns]), sent))

\* the row filter spliced into the text of build_select_query
with_row_filter(query, table, where, row_filter) ==
    IF Truthy(row_filter)
    THEN IF Truthy(where)
         THEN replace_text(query, " WHERE ",
                           <<" WHERE ">> \o Get(row_filter) \o <<" AND ">>)
         ELSE replace_text(query, " FROM ",
                           <<" FROM ">> \o characters(table) \o <<" WHERE ">>
                             \o Get(row_filter) \o <<" ">>)
    ELSE query

\* with_row_limit that leaves the text of the builder as it is
with_row_limit_unchanged(query, limit, effective_limit) == query

\* the LIMIT of the text rewritten when apply_row_limit changed the limit
with_row_limit(query, limit, effective_limit) ==
    IF Some(effective_limit) # limit
    THEN IF IsNone(limit)
         THEN query \o <<" LIMIT ", ToString(effective_limit)>>
         ELSE rsplit_head(query, " LIMIT ")
                \o <<" LIMIT ", ToString(effective_limit)>>
    ELSE query

select(self, db, table, columns, where, order_by, limit, offset) ==
    LET built == build_select_query(characters(table), columns, where,
                                    order_by, limit, offset)
        row_filter == get_row_filter(self, table)
        effective_limit == apply_row_limit(self, limit)
        query == with_row_limit(
                     with_row_filter(built.value.query, table, where,
                                     row_filter),
                     limit, effective_limit)
        filtered_results == filter_result_columns(self, table, db.rows)
    IN  Guarded(self, db, "read", table,
            IF ~ Returned(built)
            THEN Outcome(built, <<table_exists_statement(table)>>)
            ELSE Executed(db,
                     [table |-> table,
                      sent |-> Statement(query, built.value.params, "all")],
                     [success |-> TRUE, count |-> Len(filtered_results),
                      data |-> _format_results(filtered_results)]))

\* table_def.primary_key if table_def else "id"
returning_of(self, table) ==
    IF table \in DOMAIN self.permissions.tables
    THEN Some(characters(self.permissions.tables[table].primary_key))
    ELSE Some(characters("id"))

\* where_with_row_filter that leaves the where dict of the caller alone
where_without_row_filter(where, row_filter) == where

\* update and delete: a row filter of two parts around " = " is put into the
\* where dict
where_with_row_filter(where, row_filter) ==
    IF Truthy(row_filter)
    THEN LET filter_parts == split(Get(row_filter), " = ")
         IN  IF Len(filter_parts) = 2
             THEN LET filter_col == strip(strip(filter_parts[1], Whitespace),
                                          {"\""})
                      filter_val == strip(strip(filter_parts[2], Whitespace),
                                          {"'"})
                  IN  set_item(where, text_characters(filter_col), filter_val)
             ELSE where
    ELSE where

\* the build and the execute_query that end insert, update and delete
BuiltAndExecuted(db, table, built) ==
    IF ~ Returned(built)
    THEN Outcome(built, <<table_exists_statement(table)>>)
    ELSE Executed(db,
             [table |-> table,
              sent |-> Statement(built.value.query, built.value.params,
                                 "one")],
             \* fetch="one": dict(row), or {} when there is no row
             [success |-> TRUE,
              data |-> IF db.rows = << >> THEN << >> ELSE db.rows[1]])

insert(self, db, table, data) ==
    Guarded(self, db, "insert", table,
        BuiltAndExecuted(db, table,
            build_insert_query(characters(table), data,
                               returning_of(self, table))))

update(self, db, table, data, where) ==
    Guarded(self, db, "update", table,
        BuiltAndExecuted(db, table,
            build_update_query(characters(table), data,
                where_with_row_filter(where, get_row_filter(self, table)),
                returning_of(self, table))))

delete(self, db, table, where) ==
    Guarded(self, db, "delete", table,
        BuiltAndExecuted(db, table,
            build_delete_query(characters(table),
                where_with_row_filter(where, get_row_filter(self, table)),
                returning_of(self, table))))

\* str.upper() of the words a raw query is made of here
upper(text) ==
    [i \in 1..Len(text) |->
        CASE text[i] \in {"select", "Select", "SELECT"} -> "SELECT"
          [] text[i] \in {"delete", "DELETE"} -> "DELETE"
          [] text[i] \in {"selected", "SELECTED"} -> "SELECTED"
          [] OTHER -> text[i]]

\* startswith that accepts every statement
startswith_anything(text) == TRUE

\* str.startswith("SELECT")
startswith_SELECT(text) ==
    text # << >> /\ text[1] \in {"SELECT", "SELECTED"}

execute(self, db, sql, params) ==
    LET allowed == check_permission(self, "query", "")
        sql_stripped == upper(strip(sql, Whitespace))
        statement == Statement(sql, params, "all")
    IN  IF ~ Returned(allowed) THEN Outcome(allowed, << >>)
        ELSE IF ~ startswith_SELECT(sql_stripped)
             THEN Outcome(Raise("PermissionError",
                     <<"Only SELECT queries are allowed for security reasons">>),
                     << >>)
        ELSE IF db.fail = 1
             THEN Outcome(Failure(StoreError.message), <<statement>>)
        ELSE Outcome(Return([success |-> TRUE, count |-> Len(db.rows),
                             data |-> _format_results(db.rows)]),
                     <<statement>>)

----------------------------------------------------------------------------
(* The sanitizer on its own: every identifier up to MaxIdentLen *)

\* Settings(): the field defaults of config.py lines 81-87
DefaultSettings == [role |-> "reader", user_id |-> None, tenant_id |-> None,
                    max_query_rows |-> DefaultMaxQueryRows]
NoCall == [op |-> "none"]

\* no operation is in progress: the last result has been handed to the caller
Idle == call = NoCall

\* what the methods of the checker and of the builder leave alone
Unchanged ==
    UNCHANGED <<document, settings, permissions, checker, store, executed>>

\* the caller takes the result of the operation
Respond ==
    /\ ~ Idle
    /\ call' = NoCall
    /\ ret' = Return(None)
    /\ executed' = << >>
    /\ UNCHANGED <<document, settings, permissions, checker, store>>

InitSanitizer ==
    /\ document = None
    /\ settings = DefaultSettings
    /\ permissions = load_permissions(document)
    /\ checker = _load_config(settings, permissions)
    /\ store = {}
    /\ executed = << >>
    /\ call = NoCall
    /\ ret = Return(None)

SanitizeIdentifier ==
    /\ Idle
    /\ \E identifier \in SeqsUpTo(Chars, MaxIdentLen) :
           /\ call' = [op |-> "sanitize_identifier", identifier |-> identifier]
           /\ ret' = sanitize_identifier(identifier)
           /\ Unchanged

NextSanitizer == SanitizeIdentifier \/ Respond

SpecSanitizer == InitSanitizer /\ [][NextSanitizer]_vars

----------------------------------------------------------------------------
(* The query builder on its own *)

\* identifiers a caller passes: valid ones, the empty string, an injection
GoodNames == {<<"a">>, <<"Z", "7">>, <<"_", "a">>}
BadNames == {<<"a", ";">>}
Names == GoodNames \cup BadNames

\* the dicts of at most n items over the given keys, each key at most once
Dicts(keys, values, n) ==
    {d \in SeqsUpTo(keys \X values, n) :
        \A i, j \in 1..Len(d) : i # j => d[i][1] # d[j][1]}

WhereValues == {101, 102}
SelectColumns ==
    {None, Some(<< >>), Some(<< <<"a">> >>), Some(<< <<"Z", "7">>, <<"a">> >>),
     Some(<< <<"a">>, <<"a", ";">> >>)}
Wheres ==
    {None} \cup {Some(d) : d \in Dicts(Names, WhereValues, MaxWhere)}
OrderBys == {None, Some(<< >>), Some(<<"Z", "7">>), Some(<<"a", ";">>)}
BuilderLimits == {None, Some(-1), Some(0), Some(1), Some(10)}
Offsets == {0, 5}

BuildSelectQuery ==
    /\ Idle
    /\ \E table \in {<<"a">>, <<"a", ";">>}, columns \in SelectColumns,
          where \in Wheres, order_by \in OrderBys, limit \in BuilderLimits,
          offset \in Offsets :
           /\ call' = [op |-> "build_select_query", table |-> table,
                       columns |-> columns, where |-> where,
                       order_by |-> order_by, limit |-> limit, offset |-> offset]
           /\ ret' = build_select_query(table, columns, where, order_by, limit,
                                        offset)
           /\ Unchanged

\* the keys and values of the data and where dicts of insert, update, delete
Keys == {<<"a">>, <<"Z", "7">>, <<"a", ";">>}
DataValues == {201, 202}
Datas == Dicts(Keys, DataValues, MaxWhere)
UpdateWheres == Dicts(Keys, WhereValues, MaxWhere)
Returnings == {None, Some(<< >>), Some(<<"_", "a">>), Some(<<"a", ";">>)}
BuilderTables == {<<"a">>, <<"a", ";">>}

BuildInsertQuery ==
    /\ Idle
    /\ \E table \in BuilderTables, data \in Datas, returning \in Returnings :
           /\ call' = [op |-> "build_insert_query", table |-> table,
                       data |-> data, returning |-> returning]
           /\ ret' = build_insert_query(table, data, returning)
           /\ Unchanged

BuildUpdateQuery ==
    /\ Idle
    /\ \E table \in BuilderTables, data \in Datas, where \in UpdateWheres,
          returning \in Returnings :
           /\ call' = [op |-> "build_update_query", table |-> table,
                       data |-> data, where |-> where, returning |-> returning]
           /\ ret' = build_update_query(table, data, where, returning)
           /\ Unchanged

BuildDeleteQuery ==
    /\ Idle
    /\ \E table \in BuilderTables, where \in UpdateWheres,
          returning \in Returnings :
           /\ call' = [op |-> "build_delete_query", table |-> table,
                       where |-> where, returning |-> returning]
           /\ ret' = build_delete_query(table, where, returning)
           /\ Unchanged

NextBuilder ==
    \/ BuildSelectQuery
    \/ BuildInsertQuery
    \/ BuildUpdateQuery
    \/ BuildDeleteQuery
    \/ Respond

SpecBuilder == InitSanitizer /\ [][NextBuilder]_vars

----------------------------------------------------------------------------
(* The configurations and sessions explored.                               *)
(* Each family varies what one group of checker operations reads and takes *)
(* the rest from the fixture of tests/test_permissions.py.                 *)

TableNames == {"users", "orders"}
SessionRoles == {"admin", "reader", "guest"}
OperationKinds == {"read", "insert", "update", "delete", "query", "write"}

Role(tables, operations, columns, row_filters) ==
    [description |-> None, tables |-> tables, operations |-> operations,
     columns |-> columns, row_filters |-> row_filters]

Map1(k, v) == [x \in {k} |-> v]

Document(default_role, roles, tables) ==
    [default_role |-> default_role, roles |-> roles, tables |-> tables]

Session(role, user_id, tenant_id, max_query_rows) ==
    [role |-> role, user_id |-> user_id, tenant_id |-> tenant_id,
     max_query_rows |-> max_query_rows]

\* the maps from a subset of {"admin", "reader"} to role definitions
RolesMaps(admins, readers) ==
    {[r \in D |-> IF r = "admin" THEN a ELSE rd] :
        D \in SUBSET {"admin", "reader"}, a \in admins, rd \in readers}

FixtureColumns ==
    <<ColumnDef("id", None), ColumnDef("email", Some(<<"admin">>)),
      ColumnDef("name", None)>>
FixtureTables == Map1("users", TableDef(FixtureColumns, None))

\* access control: table lists, operation lists, the admin definition, the
\* default role and the session's role name
TablesLists ==
    {<< >>, <<"users">>, <<"users", "orders">>, <<"*">>, <<"users", "*">>}
OperationsLists ==
    {<< >>, <<"read">>, <<"write">>, <<"read", "write">>, <<"*">>}
AccessRoles ==
    {Role(t, o, EmptyMap, EmptyMap) : t \in TablesLists, o \in OperationsLists}
AdminRoles ==
    {RoleDef, SynthesizedAdmin, Role(<<"users">>, <<"read">>, EmptyMap, EmptyMap)}
AccessFiles ==
    {None, Some(EmptyDocument)} \cup
    {Some(Document(d, Some(m), Some(FixtureTables))) :
        d \in {None, Some("admin"), Some("nobody")},
        m \in RolesMaps(AdminRoles, AccessRoles)}
AccessScenarios ==
    {<<f, Session(r, None, None, DefaultMaxQueryRows)>> :
        f \in AccessFiles, r \in SessionRoles}

\* column visibility: role-level column lists and table-level visible_to
ColumnMaps ==
    {EmptyMap, Map1("users", <<"id", "name">>), Map1("users", << >>),
     Map1("orders", <<"id">>)}
VisibleTo ==
    {None, Some(<<"*">>), Some(<<"admin">>), Some(<<"reader">>),
     Some(<<"writer", "guest">>)}
ColumnLists ==
    {<<ColumnDef("id", v1), ColumnDef("email", v2)>> :
        v1 \in VisibleTo, v2 \in VisibleTo}
ColumnFiles ==
    {Some(Document(None,
                   Some(Map1("reader", Role(t, <<"read", "write">>, c, EmptyMap))),
                   td)) :
        t \in {<<"users", "orders">>, <<"*">>}, c \in ColumnMaps,
        td \in {None} \cup {Some(Map1("users", TableDef(cl, None))) :
                                cl \in ColumnLists}}
ColumnScenarios ==
    {<<f, Session(r, None, None, DefaultMaxQueryRows)>> :
        f \in ColumnFiles, r \in SessionRoles}

\* row filters: role-level and table-level templates, the session's ids
UserTemplate == <<"user_id", " = ", "{user_id}">>
TenantTemplate == <<"tenant_id", " = ", "{tenant_id}">>
BothTemplate ==
    <<"tenant_id", " = ", "{tenant_id}", " AND (", "owner", " = ", "{user_id}",
      " OR ", "{user_id}", " = ", "0", ")">>
FilterMaps ==
    {EmptyMap, Map1("users", UserTemplate), Map1("users", BothTemplate),
     Map1("orders", << >>)}
TableFilters ==
    {None, Some(EmptyMap), Some(Map1("reader", TenantTemplate)),
     Some(Map1("guest", BothTemplate)), Some(Map1("admin", UserTemplate))}
FilterFiles ==
    {Some(Document(None,
                   Some(Map1("reader", Role(t, <<"read", "write">>, EmptyMap, f))),
                   td)) :
        t \in {<<"users", "orders">>, <<"*">>}, f \in FilterMaps,
        td \in {None} \cup {Some(Map1("users", TableDef(FixtureColumns, tf))) :
                                tf \in TableFilters}}
FilterScenarios ==
    {<<f, Session(r, u, t, DefaultMaxQueryRows)>> :
        f \in FilterFiles, r \in SessionRoles,
        u \in {None, Some("123")}, t \in {None, Some("t1")}}

\* row caps
Caps == (-1 .. MaxCap) \cup {DefaultMaxQueryRows}
FixtureFile ==
    Some(Document(Some("reader"),
                  Some(Map1("reader", Role(<<"users", "products">>, <<"read">>,
                                           Map1("users", <<"id", "name">>),
                                           EmptyMap))),
                  Some(FixtureTables)))
CapScenarios ==
    {<<FixtureFile, Session(r, None, None, m)>> :
        r \in {"admin", "reader"}, m \in Caps}

Scenarios ==
    AccessScenarios \cup ColumnScenarios \cup FilterScenarios \cup CapScenarios

\* the limits a caller asks for
Limits ==
    {None} \cup {Some(n) : n \in (-1 .. MaxCap + 1) \cup
                     {DefaultMaxQueryRows - 1, DefaultMaxQueryRows,
                      DefaultMaxQueryRows + 1, 2 * DefaultMaxQueryRows}}

\* the rows of a result: dicts of the columns id, name, email in some order
Rows ==
    {<<<<"id", 1>>, <<"name", 11>>, <<"email", 21>>>>,
     <<<<"email", 22>>, <<"id", 2>>>>,
     << >>}
Results == SeqsUpTo(Rows, MaxResultRows)

----------------------------------------------------------------------------
(* The permission checker: a session is constructed, then queried *)

Init ==
    \E sc \in Scenarios :
        /\ document = sc[1]
        /\ settings = sc[2]
        /\ permissions = load_permissions(document)
        /\ checker = _load_config(settings, permissions)
        /\ store = {}
        /\ executed = << >>
        /\ call = NoCall
        /\ ret = Return(None)

IsAdmin ==
    /\ Idle
    /\ call' = [op |-> "is_admin"]
    /\ ret' = Return(is_admin(checker))
    /\ Unchanged

CanAccessTable ==
    /\ Idle
    /\ \E t \in TableNames :
           /\ call' = [op |-> "can_access_table", table_name |-> t]
           /\ ret' = Return(can_access_table(checker, t))
           /\ Unchanged

CanRead ==
    /\ Idle
    /\ \E t \in TableNames :
           /\ call' = [op |-> "can_read", table_name |-> t]
           /\ ret' = Return(can_read(checker, t))
           /\ Unchanged

CanWrite ==
    /\ Idle
    /\ \E t \in TableNames :
           /\ call' = [op |-> "can_write", table_name |-> t]
           /\ ret' = Return(can_write(checker, t))
           /\ Unchanged

CanExecuteRawQuery ==
    /\ Idle
    /\ call' = [op |-> "can_execute_raw_query"]
    /\ ret' = Return(can_execute_raw_query(checker))
    /\ Unchanged

ValidateOperation ==
    /\ Idle
    /\ \E k \in OperationKinds, t \in TableNames :
           /\ call' = [op |-> "validate_operation", operation |-> k,
                       table_name |-> t]
           /\ ret' = Return(validate_operation(checker, k, t))
           /\ Unchanged

CheckPermission ==
    /\ Idle
    /\ \E k \in OperationKinds, t \in TableNames :
           /\ call' = [op |-> "check_permission", operation |-> k,
                       table_name |-> t]
           /\ ret' = check_permission(checker, k, t)
           /\ Unchanged

GetAllowedColumns ==
    /\ Idle
    /\ \E t \in TableNames :
           /\ call' = [op |-> "get_allowed_columns", table_name |-> t]
           /\ ret' = Return(get_allowed_columns(checker, t))
           /\ Unchanged

GetRowFilter ==
    /\ Idle
    /\ \E t \in TableNames :
           /\ call' = [op |-> "get_row_filter", table_name |-> t]
           /\ ret' = Return(get_row_filter(checker, t))
           /\ Unchanged

FilterResultColumns ==
    /\ Idle
    /\ \E t \in TableNames, rows \in Results :
           /\ call' = [op |-> "filter_result_columns", table_name |-> t,
                       rows |-> rows]
           /\ ret' = Return(filter_result_columns(checker, t, rows))
           /\ Unchanged

ApplyRowLimit ==
    /\ Idle
    /\ \E limit \in Limits :
           /\ call' = [op |-> "apply_row_limit", limit |-> limit]
           /\ ret' = Return(apply_row_limit(checker, limit))
           /\ Unchanged

Next ==
    \/ IsAdmin
    \/ CanAccessTable
    \/ CanRead
    \/ CanWrite
    \/ CanExecuteRawQuery
    \/ ValidateOperation
    \/ CheckPermission
    \/ GetAllowedColumns
    \/ GetRowFilter
    \/ FilterResultColumns
    \/ ApplyRowLimit
    \/ Respond

Spec == Init /\ [][Next]_vars

----------------------------------------------------------------------------
(* The table operations and the raw query tool over a store *)

\* row filters of other shapes than `col = {placeholder}`
FilterShapes ==
    {UserTemplate,
     <<"\"", "user_id", "\"", " = ", "'", "{user_id}", "'">>,
     BothTemplate,
     <<"id", " >= ", "100">>,
     <<"user_id", " = ", "{user_id}", " AND ", "id", " >= ", "100">>}

\* reader reads two columns of users; writer reads and writes users, and the
\* table named "users;", under a row filter on users
FacadeFile(row_filters) ==
    Some(Document(None,
                  Some([r \in {"reader", "writer"} |->
                           IF r = "reader"
                           THEN Role(<<"users">>, <<"read">>,
                                     Map1("users", <<"id", "name">>), EmptyMap)
                           ELSE Role(<<"users", "users;">>,
                                     <<"read", "write">>, EmptyMap,
                                     row_filters)]),
                  Some(FixtureTables)))
FacadeScenarios ==
    {<<FacadeFile(EmptyMap), Session(r, Some("123"), None, MaxCap)>> :
        r \in {"admin", "reader", "writer"}}
    \cup {<<FacadeFile(Map1("users", f)),
            Session("writer", Some("123"), None, MaxCap)>> :
             f \in FilterShapes}
    \cup {<<FacadeFile(Map1("users", UserTemplate)),
            Session("writer", None, None, MaxCap)>>,
          \* a role named reader whose table list holds the wildcard
          <<Some(Document(None,
                          Some(Map1("reader",
                                    Role(<<"*">>, <<"read">>, EmptyMap,
                                         Map1("users", UserTemplate)))),
                          Some(FixtureTables))),
            Session("reader", Some("123"), None, MaxCap)>>,
          <<FacadeFile(EmptyMap),
            Session("reader", Some("123"), None, MaxCap - 1)>>}
Stores == {{}, {"users", "orders"}, {"users", "orders", "users;"}}

InitFacade ==
    \E sc \in FacadeScenarios, tables \in Stores :
        /\ document = sc[1]
        /\ settings = sc[2]
        /\ permissions = load_permissions(document)
        /\ checker = _load_config(settings, permissions)
        /\ store = tables
        /\ executed = << >>
        /\ call = NoCall
        /\ ret = Return(None)

\* the arguments of the table operations
FacadeTables == {"users", "orders", "users;"}
FacadeKeys == {characters("user_id"), characters("id"), <<"i", ";">>}
FacadeWheres == Dicts(FacadeKeys, {<<"v1">>}, MaxWhere)
FacadeDatas == Dicts({characters("id"), <<"i", ";">>}, {<<"v1">>}, MaxWhere)

\* the store answers every statement, or fails at the first or the second
Fails == 0 .. 2
StoreRows ==
    <<<<<<"id", 1>>, <<"name", 11>>, <<"email", 21>>>>,
      <<<<"email", 22>>, <<"id", 2>>>>>>
Db(fail) == [tables |-> store, fail |-> fail, rows |-> StoreRows]

\* an operation of the facade ran: its outcome and the statements it sent
Ran(c, outcome) ==
    /\ call' = c
    /\ ret' = outcome.ret
    /\ executed' = outcome.sent
    /\ UNCHANGED <<document, settings, permissions, checker, store>>

ListTables ==
    /\ Idle
    /\ \E fail \in Fails :
           Ran([op |-> "list_tables", fail |-> fail],
               list_tables(checker, Db(fail)))

DescribeTable ==
    /\ Idle
    /\ \E table_name \in FacadeTables, fail \in Fails :
           Ran([op |-> "describe_table", table |-> table_name, fail |-> fail],
               describe_table(checker, Db(fail), table_name))

Select ==
    /\ Idle
    /\ \E table \in FacadeTables,
          columns \in {None, Some(<<characters("id")>>),
                       Some(<< <<"i", ";">> >>)},
          where \in {None} \cup {Some(d) : d \in FacadeWheres},
          order_by \in {None, Some(characters("id")), Some(<<"i", ";">>)},
          limit \in {None} \cup {Some(n) : n \in -1 .. MaxCap + 1},
          offset \in Offsets, fail \in Fails :
           Ran([op |-> "select", table |-> table, columns |-> columns,
                where |-> where, order_by |-> order_by, limit |-> limit,
                offset |-> offset, fail |-> fail],
               select(checker, Db(fail), table, columns, where,
                      order_by, limit, offset))

Insert ==
    /\ Idle
    /\ \E table \in FacadeTables, data \in FacadeDatas, fail \in Fails :
           Ran([op |-> "insert", table |-> table, data |-> data,
                fail |-> fail],
               insert(checker, Db(fail), table, data))

Update ==
    /\ Idle
    /\ \E table \in FacadeTables, data \in FacadeDatas, where \in FacadeWheres,
          fail \in Fails :
           Ran([op |-> "update", table |-> table, data |-> data,
                where |-> where, fail |-> fail],
               update(checker, Db(fail), table, data, where))

Delete ==
    /\ Idle
    /\ \E table \in FacadeTables, where \in FacadeWheres, fail \in Fails :
           Ran([op |-> "delete", table |-> table, where |-> where,
                fail |-> fail],
               delete(checker, Db(fail), table, where))

Execute ==
    /\ Idle
    /\ \E sql \in {<<"SELECT", " 1">>,
                    <<" ", "select", " * from users", "\n">>,
                    <<"selected", " = 1">>, <<"DELETE", " FROM users">>,
                    <<"delete", " from users">>,
                    <<"WITH x AS (", "SELECT", " 1)">>, << >>},
          fail \in Fails :
           Ran([op |-> "execute", sql |-> sql, fail |-> fail],
               execute(checker, Db(fail), sql, << >>))

NextFacade ==
    \/ ListTables
    \/ DescribeTable
    \/ Select
    \/ Insert
    \/ Update
    \/ Delete
    \/ Execute
    \/ Respond

SpecFacade == InitFacade /\ [][NextFacade]_vars

----------------------------------------------------------------------------
(* C1 *)

\* the identifiers the specification accepts: [A-Za-z0-9_-]+
InPattern(identifier) ==
    /\ Len(identifier) > 0
    /\ \A i \in 1..Len(identifier) :
           identifier[i] \in AsciiLetters \cup AsciiDigits \cup {"_", "-"}

\* C1: sanitize_identifier succeeds exactly on the non-empty strings over
\* A-Z a-z 0-9 _ - and returns the identifier in double quotes; on every
\* other string it raises ValueError.
C1_SanitizeExactlyPattern ==
    call.op = "sanitize_identifier" =>
        IF InPattern(call.identifier)
        THEN /\ Returned(ret)
             /\ ret.value = <<"\"">> \o call.identifier \o <<"\"">>
        ELSE ret.raised = "ValueError"

----------------------------------------------------------------------------
(* C2 *)

AdminSession == checker.role_name = "admin"

\* C2: for a session whose role name is "admin", is_admin, can_access_table,
\* can_read, can_write and can_execute_raw_query return true for every table
\* and every configuration.
C2_AdminFullAccess ==
    (AdminSession /\ call.op \in {"is_admin", "can_access_table", "can_read",
                                  "can_write", "can_execute_raw_query"})
        => ret.value = TRUE

\* an admin session under a configuration with no admin role writes a table
C2_Witness ==
    /\ AdminSession
    /\ "admin" \notin DOMAIN permissions.roles
    /\ call.op = "can_write"
    /\ call.table_name = "orders"
    /\ ret.value = TRUE

----------------------------------------------------------------------------
(* C3 *)

\* C3: for a session whose role name is "admin", validate_operation returns
\* true and check_permission does not raise, for every operation kind and
\* every table.
C3_AdminPassesEveryCheck ==
    /\ (AdminSession /\ call.op = "validate_operation") => ret.value = TRUE
    /\ (AdminSession /\ call.op = "check_permission") => Returned(ret)

----------------------------------------------------------------------------
(* C4 *)

\* role name not "admin" and no wildcard in the role's table list
NonAdminSession ==
    checker.role_name # "admin" /\ ~ Contains(checker.role.tables, "*")

HasVerb(verb) ==
    Contains(checker.role.operations, verb)
        \/ Contains(checker.role.operations, "*")

\* C4: for a non-admin session, can_access_table(t) iff t is in the role's
\* table list; can_read(t) iff t is in the list and the operations contain
\* "read" or "*"; can_write(t) iff t is in the list and the operations contain
\* "write" or "*"; can_execute_raw_query() is false.
C4_NonAdminAccess ==
    NonAdminSession =>
        /\ call.op = "can_access_table" =>
              (ret.value <=> Contains(checker.role.tables, call.table_name))
        /\ call.op = "can_read" =>
              (ret.value <=> (Contains(checker.role.tables, call.table_name)
                               /\ HasVerb("read")))
        /\ call.op = "can_write" =>
              (ret.value <=> (Contains(checker.role.tables, call.table_name)
                               /\ HasVerb("write")))
        /\ call.op = "can_execute_raw_query" => ret.value = FALSE

\* a read-only role is refused the write of a table it may read
C4_Witness ==
    /\ NonAdminSession
    /\ call.op = "can_write"
    /\ Contains(checker.role.tables, call.table_name)
    /\ checker.role.operations = <<"read">>
    /\ ret.value = FALSE

----------------------------------------------------------------------------
(* C5 *)

C5_RaisesIffInvalid ==
    call.op = "check_permission" =>
        IF validate_operation(checker, call.operation, call.table_name)
        THEN Returned(ret) /\ ret.value = None
        ELSE /\ ret.raised = "PermissionError"
             /\ Contains(ret.message, checker.role_name)
             /\ Contains(ret.message, call.operation)
             /\ Contains(ret.message, call.table_name)

C5_NoStateChange ==
    call'.op = "check_permission" =>
        UNCHANGED <<document, settings, permissions, checker, store, executed>>

\* C5: check_permission raises the permission-denied error exactly when
\* validate_operation is false, the message then names the role, the
\* operation and the table; otherwise it returns and changes no state.
C5_CheckPermission == [] C5_RaisesIffInvalid /\ [][C5_NoStateChange]_vars

\* a read-only role is denied an update of a table it may read
C5_Witness ==
    /\ call.op = "check_permission"
    /\ call.operation = "update"
    /\ checker.role_name = "reader"
    /\ Contains(checker.role.tables, call.table_name)
    /\ checker.role.operations = <<"read">>
    /\ ret.raised = "PermissionError"

----------------------------------------------------------------------------
(* C6 *)

\* the position of an item in a row (a dict has each key once)
PositionIn(row, item) == CHOOSE p \in 1..Len(row) : row[p] = item

\* out holds exactly the items of row whose key is allowed, in row's order
IsProjection(row, out, allowed) ==
    /\ \A j \in 1..Len(out) :
           /\ \E p \in 1..Len(row) : row[p] = out[j]
           /\ \E a \in 1..Len(allowed) : allowed[a] = out[j][1]
    /\ \A p \in 1..Len(row) :
           (\E a \in 1..Len(allowed) : allowed[a] = row[p][1])
               => \E j \in 1..Len(out) : out[j] = row[p]
    /\ \A j, k \in 1..Len(out) :
           j < k => PositionIn(row, out[j]) < PositionIn(row, out[k])

\* C6: filter_result_columns returns, for a non-admin session with a
\* restricted column list for the table, one row per input row in the same
\* order, each holding exactly the input row's items whose key is allowed,
\* values and key order unchanged; for an admin or unrestricted session it
\* returns the rows unchanged.
C6_FilterResultColumns ==
    call.op = "filter_result_columns" =>
        LET allowed == get_allowed_columns(checker, call.table_name)
        IN  IF is_admin(checker) \/ IsNone(allowed)
            THEN ret.value = call.rows
            ELSE /\ Len(ret.value) = Len(call.rows)
                 /\ \A i \in 1..Len(call.rows) :
                        IsProjection(call.rows[i], ret.value[i], Get(allowed))

\* the reader of the test fixture loses `email` from both of two rows
C6_Witness ==
    /\ call.op = "filter_result_columns"
    /\ ~ is_admin(checker)
    /\ get_allowed_columns(checker, call.table_name) = Some(<<"id", "name">>)
    /\ call.rows = << <<<<"email", 22>>, <<"id", 2>>>>,
                      <<<<"id", 1>>, <<"name", 11>>, <<"email", 21>>>> >>
    /\ ret.value = << <<<<"id", 2>>>>, <<<<"id", 1>>, <<"name", 11>>>> >>

----------------------------------------------------------------------------
(* C7 *)

\* the table definition's columns that the session's role may see
VisibleNames(table_def) ==
    LET keep(col) ==
            \/ IsNone(col.visible_to)
            \/ Contains(Get(col.visible_to), "*")
            \/ Contains(Get(col.visible_to), checker.role_name)
        kept == SelectSeq(table_def.columns, keep)
    IN  [i \in 1..Len(kept) |-> kept[i].name]

\* C7: for a non-admin session get_allowed_columns is the role-level column
\* list when the role has one; otherwise, when a table definition exists,
\* exactly the list of its columns visible to the role; it is None only when
\* no table definition exists.
C7_AllowedColumns ==
    (call.op = "get_allowed_columns" /\ ~ is_admin(checker)) =>
        IF call.table_name \in DOMAIN checker.role.columns
        THEN ret.value = Some(checker.role.columns[call.table_name])
        ELSE IF call.table_name \in DOMAIN checker.permissions.tables
             THEN ret.value =
                    Some(VisibleNames(checker.permissions.tables[call.table_name]))
             ELSE ret.value = None

----------------------------------------------------------------------------
(* C8 *)

\* the template that applies to the table: role level first, then the table
\* definition's template for the session's role name
TemplateFor(table_name) ==
    IF table_name \in DOMAIN checker.role.row_filters
    THEN Some(checker.role.row_filters[table_name])
    ELSE IF /\ table_name \in DOMAIN checker.permissions.tables
            /\ ~ IsNone(checker.permissions.tables[table_name].row_filter)
            /\ checker.role_name \in
                 DOMAIN Get(checker.permissions.tables[table_name].row_filter)
         THEN Some(Get(checker.permissions.tables[table_name].row_filter)
                       [checker.role_name])
    ELSE None

\* text is template with each placeholder of a set session value replaced
IsSubstituted(template, text) ==
    /\ Len(text) = Len(template)
    /\ \A i \in 1..Len(template) :
           text[i] =
               IF template[i] = "{user_id}" /\ ~ IsNone(checker.user_id)
               THEN Get(checker.user_id)
               ELSE IF template[i] = "{tenant_id}" /\ ~ IsNone(checker.tenant_id)
                    THEN Get(checker.tenant_id)
                    ELSE template[i]

\* C8: get_row_filter returns None for an admin session; otherwise the
\* role-level template for the table if present, else the table definition's
\* template for the session's role name, else None; in the returned text
\* every {user_id} and {tenant_id} is replaced by the session's value
\* whenever that value is set.
C8_RowFilter ==
    call.op = "get_row_filter" =>
        IF is_admin(checker) \/ IsNone(TemplateFor(call.table_name))
        THEN ret.value = None
        ELSE /\ ~ IsNone(ret.value)
             /\ IsSubstituted(Get(TemplateFor(call.table_name)), Get(ret.value))

\* a role-level template with both placeholders, both ids set
C8_Witness ==
    /\ call.op = "get_row_filter"
    /\ checker.role_name = "reader"
    /\ call.table_name = "users"
    /\ checker.role.row_filters = Map1("users", BothTemplate)
    /\ ret.value = Some(<<"tenant_id", " = ", "t1", " AND (", "owner", " = ",
                          "123", " OR ", "123", " = ", "0", ")">>)

----------------------------------------------------------------------------
(* C9 *)

\* C9: apply_row_limit returns the configured max when the requested limit
\* is absent or not positive, and min(requested, max) otherwise; for a
\* positive max the result is between 1 and max.
C9_ApplyRowLimit ==
    call.op = "apply_row_limit" =>
        /\ IF IsNone(call.limit) \/ Get(call.limit) <= 0
           THEN ret.value = checker.max_rows
           ELSE ret.value = IF Get(call.limit) <= checker.max_rows
                            THEN Get(call.limit) ELSE checker.max_rows
        /\ checker.max_rows > 0 =>
              (1 <= ret.value /\ ret.value <= checker.max_rows)

\* a request above the cap of 1000 is cut to the cap
C9_Witness ==
    /\ call.op = "apply_row_limit"
    /\ checker.max_rows = DefaultMaxQueryRows
    /\ call.limit = Some(2 * DefaultMaxQueryRows)
    /\ ret.value = DefaultMaxQueryRows

----------------------------------------------------------------------------
(* C10 *)

Quoted(name) == <<"\"">> \o name \o <<"\"">>

\* the text the claim describes for a call whose identifiers are all valid
ExpectedSelect(c) ==
    LET items == IF IsNone(c.where) THEN << >> ELSE Get(c.where)
        k == Len(items)
        cols == IF IsNone(c.columns) THEN << >> ELSE Get(c.columns)
    IN  <<"SELECT ">>
        \o (IF cols = << >> THEN <<"*">>
            ELSE Join(<<", ">>, [i \in 1..Len(cols) |-> Quoted(cols[i])]))
        \o <<" FROM ">> \o Quoted(c.table)
        \o (IF k = 0 THEN << >>
            ELSE <<" WHERE ">>
                 \o Join(<<" AND ">>,
                         [i \in 1..k |->
                             Quoted(items[i][1]) \o <<" = ", "$", ToString(i)>>]))
        \o (IF IsNone(c.order_by) \/ c.order_by = Some(<< >>) THEN << >>
            ELSE <<" ORDER BY ">> \o Quoted(Get(c.order_by)))
        \o (IF IsNone(c.limit) THEN << >>
            ELSE <<" OFFSET ", "$", ToString(k + 1),
                   " LIMIT ", "$", ToString(k + 2)>>)

ExpectedParams(c) ==
    LET items == IF IsNone(c.where) THEN << >> ELSE Get(c.where)
    IN  [i \in 1..Len(items) |-> items[i][2]]
        \o (IF IsNone(c.limit) THEN << >> ELSE <<c.offset, Get(c.limit)>>)

\* C10: build_select_query with k where-conditions and a limit other than
\* None emits "col" = $1 .. $k joined by AND, the optional ORDER BY, then
\* OFFSET $(k+1) LIMIT $(k+2), and returns the where values, then offset,
\* then limit; with no limit it emits neither OFFSET nor LIMIT and adds no
\* trailing parameters.
C10_SelectOffsetLimit ==
    (call.op = "build_select_query" /\ Returned(ret)) =>
        /\ ret.value.query = ExpectedSelect(call)
        /\ ret.value.params = ExpectedParams(call)

----------------------------------------------------------------------------
(* C11: the four builders number their placeholders like their parameters *)

\* the numbers of the placeholders of a text, in order of appearance
PlaceholderNumbers(text) ==
    LET at == SelectSeq([i \in 1..Len(text) |-> i],
                        LAMBDA i : text[i] = "$" /\ i < Len(text))
    IN  [j \in 1..Len(at) |-> text[at[j] + 1]]

\* the pieces of a text that are not the number of a placeholder
OutsidePlaceholders(text) ==
    {text[i] : i \in {j \in 1..Len(text) : j = 1 \/ text[j - 1] # "$"}}

\* sub occurs in text as a contiguous run of pieces
Occurs(sub, text) ==
    \E i \in 0..(Len(text) - Len(sub)) :
        SubSeq(text, i + 1, i + Len(sub)) = sub

\* the dict a call passed under a name, a missing or None dict being empty
ItemsOf(c, field) ==
    IF field \notin DOMAIN c THEN << >>
    ELSE IF c.op = "build_select_query"
         THEN (IF IsNone(c[field]) THEN << >> ELSE Get(c[field]))
         ELSE c[field]

\* every item of a dict is bound as "key" = $n to the parameter n = base + i
ItemsBound(items, base, r) ==
    \A i \in 1..Len(items) :
        /\ Occurs(Quoted(items[i][1]) \o <<" = ">> \o Placeholder(base + i),
                  r.query)
        /\ base + i <= Len(r.params)
        /\ r.params[base + i] = items[i][2]

\* the column list and the VALUES list of an INSERT pair up item by item
InsertBound(items, r) ==
    /\ Occurs(<<" (">>
              \o Join(<<", ">>,
                      [i \in 1..Len(items) |-> Quoted(items[i][1])])
              \o <<") VALUES (">>
              \o Join(<<", ">>, Placeholders(Len(items)))
              \o <<")">>, r.query)
    /\ r.params = Values(items)

\* OFFSET and LIMIT, when the text has them, are bound after the where values
PagingBound(c, base, r) ==
    IF Contains(r.query, " OFFSET ") \/ Contains(r.query, " LIMIT ")
    THEN /\ Occurs(<<" OFFSET ">> \o Placeholder(base + 1)
                   \o <<" LIMIT ">> \o Placeholder(base + 2), r.query)
         /\ Len(r.params) = base + 2
         /\ r.params[base + 1] = c.offset
         /\ r.params[base + 2] = Get(c.limit)
    ELSE Len(r.params) = base

\* the values the caller passed to a builder
CallerValues(c) ==
    {ItemsOf(c, "where")[i][2] : i \in 1..Len(ItemsOf(c, "where"))}
    \cup {ItemsOf(c, "data")[i][2] : i \in 1..Len(ItemsOf(c, "data"))}
    \cup (IF c.op = "build_select_query"
          THEN {c.offset} \cup (IF IsNone(c.limit) THEN {} ELSE {Get(c.limit)})
          ELSE {})

BuilderOps ==
    {"build_select_query", "build_insert_query", "build_update_query",
     "build_delete_query"}

\* C11: the text a builder returns holds the placeholders $1..$n once each
\* in increasing order, n being the number of parameters returned; the i-th
\* parameter is the value bound to $i (for an update the SET values first,
\* then the WHERE values, numbered without a gap); and no value of the
\* caller appears in the text.
C11_PlaceholdersMatchParams ==
    (call.op \in BuilderOps /\ Returned(ret)) =>
        LET r == ret.value
            data == ItemsOf(call, "data")
            where == ItemsOf(call, "where")
        IN  /\ PlaceholderNumbers(r.query)
                 = [i \in 1..Len(r.params) |-> ToString(i)]
            /\ CASE call.op = "build_select_query" ->
                        /\ ItemsBound(where, 0, r)
                        /\ PagingBound(call, Len(where), r)
                 [] call.op = "build_insert_query" -> InsertBound(data, r)
                 [] call.op = "build_update_query" ->
                        /\ ItemsBound(data, 0, r)
                        /\ ItemsBound(where, Len(data), r)
                        /\ Len(r.params) = Len(data) + Len(where)
                 [] call.op = "build_delete_query" ->
                        /\ ItemsBound(where, 0, r)
                        /\ Len(r.params) = Len(where)
            /\ \A v \in CallerValues(call) :
                   ToString(v) \notin OutsidePlaceholders(r.query)

\* an update with two SET items and a WHERE item was built
C11_Witness ==
    /\ call.op = "build_update_query"
    /\ Returned(ret)
    /\ Len(call.data) = 2
    /\ Len(call.where) >= 1
    /\ Len(ret.value.params) = 3

----------------------------------------------------------------------------
(* C12: a refused table operation sends nothing to the store *)

TableOps == {"describe_table", "select", "insert", "update", "delete"}

\* the verb a table operation needs in the role's operation list
VerbOf(op) == IF op \in {"describe_table", "select"} THEN "read" ELSE "write"

\* the role of the session lacks the permission the operation in call needs
LacksPermission ==
    /\ NonAdminSession
    /\ ~ (Contains(checker.role.tables, call.table) /\ HasVerb(VerbOf(call.op)))

\* C12: describe_table, select, insert, update and delete by a role that
\* lacks the permission end with a PermissionError and have sent nothing to
\* the store, not even the table-existence probe, whether the table exists
\* or not.
C12_DeniedSendsNothing ==
    (call.op \in TableOps /\ LacksPermission) =>
        /\ ret.raised = "PermissionError"
        /\ executed = << >>

\* a read-only role was refused the update of a table of the store
C12_Witness ==
    /\ call.op = "update"
    /\ LacksPermission
    /\ call.table \in store
    /\ Contains(checker.role.tables, call.table)
    /\ ret.raised = "PermissionError"

----------------------------------------------------------------------------
(* C13: an identifier that fails sanitization *)

FailsSanitization(name) == ~ Returned(sanitize_identifier(name))

\* the identifiers of the request in call: the table name, the selected
\* columns, the where keys, the order_by column and the data keys
RequestIdentifiers ==
    LET c == call
        opt(field) == IF field \in DOMAIN c /\ ~ IsNone(c[field])
                      THEN Get(c[field]) ELSE << >>
        keys(items) == {items[i][1] : i \in 1..Len(items)}
    IN  {characters(c.table)}
        \cup (IF c.op = "select"
              THEN {opt("columns")[i] : i \in 1..Len(opt("columns"))}
                   \cup keys(opt("where"))
                   \cup (IF opt("order_by") = << >> THEN {}
                         ELSE {opt("order_by")})
              ELSE {})
        \cup (IF c.op \in {"update", "delete"} THEN keys(c.where) ELSE {})
        \cup (IF c.op \in {"insert", "update"} THEN keys(c.data) ELSE {})

\* C13: when an identifier of a select, insert, update or delete fails
\* sanitization the request ends with the invalid-identifier error and no
\* statement of any kind has been sent to the store.  Stated for the case
\* most favourable to the code: a permitted role, a table of the store, a
\* store that answers.
C13_InvalidIdentifierSendsNothing ==
    (/\ call.op \in {"select", "insert", "update", "delete"}
     /\ ~ LacksPermission
     /\ call.table \in store
     /\ call.fail = 0
     /\ \E name \in RequestIdentifiers : FailsSanitization(name))
        => /\ ret.raised = "ValueError"
           /\ executed = << >>

----------------------------------------------------------------------------
(* C14: a permitted operation on a table the store does not have *)

\* C14: describe_table, select, insert, update and delete by a permitted
\* role on a table absent from the store, the store having answered the
\* probe, return {success: false, error} with an error naming the table and
\* raise nothing; the probe is the only statement sent, so the SELECT,
\* INSERT, UPDATE or DELETE is neither built nor executed.
C14_AbsentTable ==
    (/\ call.op \in TableOps
     /\ ~ LacksPermission
     /\ call.table \notin store
     /\ call.fail # 1)
        => /\ Returned(ret)
           /\ ret.value.success = FALSE
           /\ Contains(ret.value.error, call.table)
           /\ executed = <<table_exists_statement(call.table)>>

\* the update of an absent table, with a where key that is no identifier
C14_Witness ==
    /\ call.op = "update"
    /\ checker.role_name = "writer"
    /\ call.table = "users"
    /\ store = {}
    /\ \E i \in 1..Len(call.where) : FailsSanitization(call.where[i][1])
    /\ Returned(ret)
    /\ ret.value.success = FALSE

----------------------------------------------------------------------------
(* C15: the row filter in the statement of select *)

\* the text up to its OFFSET or LIMIT clause
BeforePaging(text) ==
    LET at == {i \in 1..Len(text) : text[i] \in {" OFFSET ", " LIMIT "}}
    IN  IF at = {} THEN text
        ELSE SubSeq(text, 1, (CHOOSE i \in at : \A j \in at : i <= j) - 1)

\* the positions at which sub starts in text
StartsOf(sub, text) ==
    {i \in 1..(Len(text) - Len(sub) + 1) :
        SubSeq(text, i, i + Len(sub) - 1) = sub}

\* text with new put directly after the first occurrence of sub
InsertAfter(text, sub, new) ==
    LET at == StartsOf(sub, text)
        end == (CHOOSE i \in at : \A j \in at : i <= j) + Len(sub) - 1
    IN  SubSeq(text, 1, end) \o new \o SubSeq(text, end + 1, Len(text))

\* the session is under a row filter for the table of the call
RowFiltered ==
    NonAdminSession /\ Truthy(get_row_filter(checker, call.table))

\* what build_select_query returns for the arguments of the select in call
BuiltSelect ==
    build_select_query(characters(call.table), call.columns, call.where,
                       call.order_by, call.limit, call.offset).value

\* the text C15 describes, up to the OFFSET or LIMIT clause
ExpectedFiltered ==
    LET filter == Get(get_row_filter(checker, call.table))
        built == BeforePaging(BuiltSelect.query)
    IN  IF Truthy(call.where)
        THEN InsertAfter(built, <<" WHERE ">>, filter \o <<" AND ">>)
        ELSE InsertAfter(built,
                         <<" FROM ">> \o Quoted(characters(call.table)),
                         <<" WHERE ">> \o filter)

\* C15: the statement a select under a row filter executes is the builder's
\* with the substituted filter spliced in: WHERE <filter> AND <conditions>
\* when the caller gave a where, and WHERE <filter> as the only WHERE clause
\* directly after the quoted table reference, before ORDER BY, OFFSET and
\* LIMIT, when the caller gave none; the table is referenced once and the
\* rest of the builder's text is unchanged.
C15_RowFilterSpliced ==
    (call.op = "select" /\ RowFiltered /\ Len(executed) = 2) =>
        /\ BeforePaging(executed[2].query) = ExpectedFiltered
        /\ Cardinality(StartsOf(characters(call.table), executed[2].query)) = 1
        /\ executed[2].params = BuiltSelect.params

----------------------------------------------------------------------------
(* C16: the row cap in the statement of select *)

\* the statement ends with a LIMIT clause whose value, written in the text
\* or bound to its placeholder, is n
LimitedTo(statement, n) ==
    LET text == statement.query
        last == Len(text)
    IN  \/ /\ last >= 2
           /\ text[last - 1] = " LIMIT "
           /\ text[last] = ToString(n)
        \/ /\ last >= 3
           /\ text[last - 2] = " LIMIT "
           /\ text[last - 1] = "$"
           /\ \E k \in 1..Len(statement.params) :
                  /\ text[last] = ToString(k)
                  /\ k = Len(statement.params)
                  /\ statement.params[k] = n

\* the limit C16 describes: the requested one when it is positive and within
\* the cap, the cap otherwise
CappedLimit ==
    IF /\ ~ IsNone(call.limit)
       /\ Get(call.limit) > 0
       /\ Get(call.limit) <= checker.max_rows
    THEN Get(call.limit)
    ELSE checker.max_rows

\* C16: every SELECT the facade's select hands to the store limits the
\* result to apply_row_limit(requested) rows: never more than the configured
\* maximum, whether the requested limit is absent, zero, negative, within
\* the cap or above it, and the requested limit when it is positive and
\* within the cap.
C16_SelectIsCapped ==
    (call.op = "select" /\ Len(executed) = 2) =>
        /\ LimitedTo(executed[2], apply_row_limit(checker, call.limit))
        /\ LimitedTo(executed[2], CappedLimit)
        /\ CappedLimit <= checker.max_rows

\* a select that asked for more rows than the cap was executed
C16_Witness ==
    /\ call.op = "select"
    /\ Len(executed) = 2
    /\ ~ IsNone(call.limit)
    /\ Get(call.limit) > checker.max_rows
    /\ LimitedTo(executed[2], checker.max_rows)

----------------------------------------------------------------------------
(* C17: a single-equality row filter in the WHERE of update and delete *)

\* the <<col, val>> of a filter of the form col = val, bare or quoted as
\* "col" = 'val'; no pair for a filter of another shape
EqualityOf(filter) ==
    IF Len(filter) = 3 /\ filter[2] = " = "
    THEN {<<filter[1], filter[3]>>}
    ELSE IF /\ Len(filter) = 7
            /\ <<filter[1], filter[3], filter[4]>> = <<"\"", "\"", " = ">>
            /\ <<filter[5], filter[7]>> = <<"'", "'">>
    THEN {<<filter[2], filter[6]>>}
    ELSE {}

\* the WHERE clause of a statement: the pieces after " WHERE " up to the
\* RETURNING clause
WhereClause(statement) ==
    LET text == statement.query
        from == CHOOSE i \in 1..Len(text) : text[i] = " WHERE "
        to == IF Contains(text, " RETURNING ")
              THEN (CHOOSE i \in 1..Len(text) : text[i] = " RETURNING ") - 1
              ELSE Len(text)
    IN  SubSeq(text, from + 1, to)

\* the values the WHERE clause of a statement compares a column with
ComparedWith(statement, column) ==
    {statement.params[n] :
        n \in {k \in 1..Len(statement.params) :
                  Occurs(Quoted(column) \o <<" = ">> \o Placeholder(k),
                         WhereClause(statement))}}

\* C17: for an update or delete by a role whose row filter has the form
\* col = val, the WHERE clause of the executed statement compares col with
\* val, the value of the session-substituted filter, and with nothing else,
\* and holds every condition of the caller on another column; a value the
\* caller gave for col is replaced by the filter's.
C17_EqualityFilterInWhere ==
    (call.op \in {"update", "delete"} /\ RowFiltered /\ Len(executed) = 2) =>
        \A eq \in EqualityOf(Get(get_row_filter(checker, call.table))) :
            LET col == characters(eq[1])
                val == <<eq[2]>>
            IN  /\ ComparedWith(executed[2], col) = {val}
                /\ \A i \in 1..Len(call.where) :
                       call.where[i][1] # col =>
                           call.where[i][2]
                               \in ComparedWith(executed[2], call.where[i][1])

\* an update whose caller gave another value for the column of the filter
C17_Witness ==
    /\ call.op = "update"
    /\ RowFiltered
    /\ Len(executed) = 2
    /\ EqualityOf(Get(get_row_filter(checker, call.table))) = {<<"user_id", "123">>}
    /\ \E i \in 1..Len(call.where) :
           call.where[i] = <<characters("user_id"), <<"v1">>>>
    /\ \E i \in 1..Len(call.where) : call.where[i][1] = characters("id")

----------------------------------------------------------------------------
(* C18: a row filter of any shape in update and delete *)

\* the WHERE clause of the statement implies the filter: each part of the
\* filter joined by AND is an equality whose column the clause compares with
\* the equality's value (the conditions of a built WHERE clause are equalities
\* joined by AND, so it implies no filter of another shape)
ConstrainedBy(statement, filter) ==
    \A k \in 1..Len(split(filter, " AND ")) :
        LET part == split(filter, " AND ")[k]
        IN  /\ EqualityOf(part) # {}
            /\ \A eq \in EqualityOf(part) :
                   <<eq[2]>> \in ComparedWith(statement, characters(eq[1]))

\* C18: for every non-admin role for which get_row_filter returns a filter
\* for the table, whatever the filter's shape, every UPDATE and DELETE handed
\* to the store is constrained by that filter.
C18_WritesConstrainedByFilter ==
    (call.op \in {"update", "delete"} /\ RowFiltered /\ Len(executed) = 2) =>
        ConstrainedBy(executed[2], Get(get_row_filter(checker, call.table)))

----------------------------------------------------------------------------
(* C19: the raw query tool *)

\* the words that begin with SELECT once upper-cased
SelectWords == {"select", "Select", "SELECT", "selected", "SELECTED"}

\* the trimmed, upper-cased text begins with SELECT
BeginsWithSelect(sql) ==
    \E i \in 1..Len(sql) :
        /\ sql[i] \in SelectWords
        /\ \A j \in 1..(i - 1) : sql[j] \in Whitespace

\* C19: the raw query tool hands a statement to the store only when the
\* session is admin and the trimmed, upper-cased text begins with SELECT;
\* any text by a non-admin role, and any other text by the admin, is
\* rejected with a permission error and nothing is executed.
C19_RawQuery ==
    call.op = "execute" =>
        IF ~ NonAdminSession /\ BeginsWithSelect(call.sql)
        THEN executed = <<Statement(call.sql, << >>, "all")>>
        ELSE ret.raised = "PermissionError" /\ executed = << >>

\* the admin was refused a DELETE
C19_Witness ==
    /\ call.op = "execute"
    /\ AdminSession
    /\ call.sql = <<"DELETE", " FROM users">>
    /\ ret.raised = "PermissionError"
    /\ executed = << >>

----------------------------------------------------------------------------
(* C20: a failure of the store during an operation of the facade *)

FacadeOps == TableOps \cup {"list_tables", "execute"}

\* the store raised during the operation in call: the failing execute_query
\* was reached
StoreFailed ==
    /\ call.op \in FacadeOps
    /\ call.fail >= 1
    /\ Len(executed) >= call.fail

\* C20: a failure the store raises during list_tables, describe_table,
\* select, insert, update, delete or the raw query, at whichever call of the
\* store it happens, the table-existence probe included, is caught inside
\* the operation and returned as {success: false, error}; it never
\* propagates out of the operation.
C20_StoreFailureIsReturned ==
    StoreFailed =>
        /\ Returned(ret)
        /\ ret.value.success = FALSE
        /\ ret.value.error = StoreError.message

----------------------------------------------------------------------------
(* C25: the operation list of a role whose name is not "admin" *)

\* C25: for a session whose role name is not "admin", whatever the role's
\* table list (names or the wildcard), can_write(t) is true only if the
\* operation list contains "write" or "*", can_read(t) is true only if it
\* contains "read" or "*", and can_execute_raw_query() is false.
C25_OperationListBounds ==
    checker.role_name # "admin" =>
        /\ (call.op = "can_write" /\ ret.value = TRUE) => HasVerb("write")
        /\ (call.op = "can_read" /\ ret.value = TRUE) => HasVerb("read")
        /\ call.op = "can_execute_raw_query" => ret.value = FALSE

----------------------------------------------------------------------------
(* C30: a role name that is not configured *)

\* the session of the same settings under the name of the default role
DefaultRoleSession ==
    _load_config([settings EXCEPT !.role = permissions.default_role],
                 permissions)

\* C30: a session whose role name is not configured, resolved to the
\* definition of the default role, gets from can_read, can_write,
\* get_row_filter and get_allowed_columns, on every table, what a session
\* under the default role's name gets.
C30_UnconfiguredLikeDefault ==
    (/\ checker.role_name \notin DOMAIN permissions.roles
     /\ permissions.default_role \in DOMAIN permissions.roles)
        => \A t \in TableNames :
               /\ can_read(checker, t) = can_read(DefaultRoleSession, t)
               /\ can_write(checker, t) = can_write(DefaultRoleSession, t)
               /\ get_row_filter(checker, t)
                    = get_row_filter(DefaultRoleSession, t)
               /\ get_allowed_columns(checker, t)
                    = get_allowed_columns(DefaultRoleSession, t)

----------------------------------------------------------------------------
(* C23: the admin role of a loaded configuration *)

\* C23: after every load of the permissions configuration, whatever its
\* source (a document whose roles omit admin, a document with no roles
\* section, an empty document, a missing file), the role map holds a role
\* named "admin", synthesized with tables ["*"] and operations ["*"] when
\* the source did not define it.
C23_AdminRoleExists ==
    /\ "admin" \in DOMAIN permissions.roles
    /\ (IsNone(document) \/ IsNone(Get(document).roles)
          \/ "admin" \notin DOMAIN Get(Get(document).roles))
         => /\ permissions.roles["admin"].tables = <<"*">>
            /\ permissions.roles["admin"].operations = <<"*">>

----------------------------------------------------------------------------
(* C26: the statements of the table operations and their parameters *)

\* C26: every statement select, insert, update or delete hands to
\* execute_query references exactly the positional parameters passed with
\* it: its placeholders are $1..$n with n the number of parameters, for
\* every requested limit and with or without a row filter.
C26_StatementReferencesItsParams ==
    (call.op \in {"select", "insert", "update", "delete"}) =>
        \A k \in 1..Len(executed) :
            {PlaceholderNumbers(executed[k].query)[j] :
                    j \in 1..Len(PlaceholderNumbers(executed[k].query))}
                = {ToString(i) : i \in 1..Len(executed[k].params)}

----------------------------------------------------------------------------
(* C27: the WHERE clause of UPDATE and DELETE *)

\* C27: every UPDATE or DELETE handed to execute_query carries a WHERE
\* clause with at least one equality condition, for every where map of the
\* caller, the empty one included, with or without a row filter.
C27_WritesCarryACondition ==
    (call.op \in {"update", "delete"} /\ Len(executed) = 2) =>
        /\ Contains(executed[2].query, " WHERE ")
        /\ \E k \in 1..Len(executed[2].params) :
               Occurs(<<" = ">> \o Placeholder(k), WhereClause(executed[2]))

----------------------------------------------------------------------------
(* config.py, permissions.py: reloading the permissions *)

\* a permissions file yaml.safe_load cannot parse
Unparsable == Some([error |-> <<"while parsing a flow sequence">>])

\* reload_permissions that drops the configuration before it reads the file
reload_permissions_dropped(current, file) ==
    IF ~ IsNone(file) /\ "error" \in DOMAIN Get(file)
    THEN [result |-> Raise("YAMLError", Get(file).error),
          permissions |-> load_permissions(None)]
    ELSE [result |-> Return(None), permissions |-> load_permissions(file)]

\* _permissions = get_settings().load_permissions(): the assignment is not
\* reached when load_permissions raises
reload_permissions(current, file) ==
    IF ~ IsNone(file) /\ "error" \in DOMAIN Get(file)
    THEN [result |-> Raise("YAMLError", Get(file).error),
          permissions |-> current]
    ELSE [result |-> Return(None), permissions |-> load_permissions(file)]

\* reload_permissions_checker() on the existing checker: reload() calls
\* reload_permissions() and then _load_config() on the same object
reload_permissions_checker(self, cfg, current, file) ==
    LET loaded == reload_permissions(current, file)
    IN  [result |-> loaded.result,
         permissions |-> loaded.permissions,
         checker |-> IF Returned(loaded.result)
                     THEN _load_config(cfg, loaded.permissions)
                     ELSE self]

get_permission_summary(self) ==
    LET all_tables == SelectSeq(TableOrder,
                          LAMBDA t : t \in DOMAIN self.permissions.tables)
        get_accessible_tables ==
            IF is_admin(self) THEN all_tables
            ELSE SelectSeq(all_tables, LAMBDA t : can_access_table(self, t))
    IN  [role |-> self.role_name,
         description |-> self.role.description,
         tables |-> self.role.tables,
         operations |-> self.role.operations,
         column_restrictions |-> self.role.columns,
         row_filters |-> self.role.row_filters,
         accessible_tables |-> get_accessible_tables,
         can_execute_raw_query |-> can_execute_raw_query(self)]

----------------------------------------------------------------------------
(* server.py: the tools of the direct-SQL mode *)

\* the rows the store answers a SELECT with: the rows that have, for every
\* condition "col" = $k of the statement on a column of the table, the k-th
\* parameter in col
fetch_all(rows, statement) ==
    LET columns == UNION {{rows[i][j][1] : j \in 1..Len(rows[i])} :
                             i \in 1..Len(rows)}
    IN  SelectSeq(rows, LAMBDA row :
            \A k \in 1..Len(statement.params), col \in columns :
                Occurs(Quoted(characters(col)) \o <<" = ">> \o Placeholder(k),
                       statement.query)
                  => \E j \in 1..Len(row) :
                         row[j] = <<col, statement.params[k]>>)

\* [TextContent(type="text", text=json.dumps(result))]: the text stands as
\* the JSON document it encodes
TextContent(result) == <<[type |-> "text", text |-> [json |-> result]]>>

\* arguments.get(key, default)
get(arguments, key, default) ==
    IF key \in DOMAIN arguments THEN arguments[key] ELSE default

list_tools(self) ==
    (IF can_execute_raw_query(self) THEN <<"query">> ELSE << >>)
      \o <<"list_tables", "describe_table", "select", "insert", "update",
           "delete", "get_role_info">>

handle_sql_tool(self, db, reloaded, name, arguments) ==
    LET table == get(arguments, "table", "")
        columns == IF "columns" \in DOMAIN arguments
                   THEN Some(arguments.columns) ELSE None
        where == IF "where" \in DOMAIN arguments
                 THEN Some(arguments.where) ELSE None
        order_by == IF "order_by" \in DOMAIN arguments
                    THEN Some(arguments.order_by) ELSE None
        limit == IF "limit" \in DOMAIN arguments
                 THEN Some(arguments.limit) ELSE None
        offset == get(arguments, "offset", 0)
        \* the statement select sends, and the rows execute_query answers it
        \* with
        sent == select(self, db, table, columns, where, order_by, limit,
                       offset).sent
        rows == IF Len(sent) = 2 THEN fetch_all(db.rows, sent[2]) ELSE db.rows
        \* [TextContent(type="text", text=json.dumps(result, indent=2))]
        answered(result) ==
            IF Returned(result.ret)
            THEN Outcome(Return(TextContent(result.ret.value)), result.sent)
            ELSE result
    IN  answered(
            CASE name = "query" ->
                     execute(self, db, get(arguments, "sql", << >>),
                             get(arguments, "params", None))
              [] name = "list_tables" -> list_tables(self, db)
              [] name = "describe_table" -> describe_table(self, db, table)
              [] name = "select" ->
                     select(self, [db EXCEPT !.rows = rows], table, columns,
                            where, order_by, limit, offset)
              [] name = "insert" ->
                     insert(self, db, table, get(arguments, "data", << >>))
              [] name = "update" ->
                     update(self, db, table, get(arguments, "data", << >>),
                            get(arguments, "where", << >>))
              [] name = "delete" ->
                     delete(self, db, table, get(arguments, "where", << >>))
              [] name = "get_role_info" ->
                     Outcome(Return([success |-> TRUE,
                                     role_info |-> get_permission_summary(self)]),
                             << >>)
              [] name = "reload_permissions" ->
                     IF ~ Returned(reloaded.result)
                     THEN Outcome(reloaded.result, << >>)
                     ELSE Outcome(Return(
                              [success |-> TRUE,
                               message |-> <<"Permissions reloaded">>,
                               role_info |->
                                   get_permission_summary(reloaded.checker)]),
                              << >>)
              [] OTHER ->
                     Outcome(Failure(<<"Unknown tool: ", name>>), << >>))

\* call_tool without its except clause
call_tool_uncaught(self, db, reloaded, name, arguments) ==
    handle_sql_tool(self, db, reloaded, name, arguments)

\* call_tool in the direct-SQL mode: try handle_sql_tool, except Exception
call_tool(self, db, reloaded, name, arguments) ==
    LET except(handled) ==
            IF Returned(handled.ret) THEN handled
            ELSE Outcome(Return(TextContent(
                             [success |-> FALSE,
                              error |-> str(handled.ret.message)])),
                         handled.sent)
    IN  except(handle_sql_tool(self, db, reloaded, name, arguments))

----------------------------------------------------------------------------
(* The server: tool calls, a select in flight, and reloads *)

\* the permissions file as a reload finds it: removed, unparsable, or one of
\* two documents
Sources == {None, Unparsable, FacadeFile(EmptyMap),
            FacadeFile(Map1("users", UserTemplate))}

\* the rows of the store; the two contents differ in user_id only
Contents ==
    {<<<<<<"id", 1>>, <<"user_id", 101>>>>, <<<<"id", 2>>, <<"user_id", 102>>>>>>,
     <<<<<<"id", 1>>, <<"user_id", 102>>>>, <<<<"id", 2>>, <<"user_id", 102>>>>>>}

\* <<name, arguments>> of the tool calls
ToolRequests ==
    {<<"list_tables", EmptyMap>>,
     <<"describe_table", [table |-> "users"]>>,
     <<"select", [table |-> "users"]>>,
     <<"select", [table |-> "orders"]>>,
     <<"select", [table |-> "users;"]>>,
     <<"select", [table |-> "users", limit |-> MaxCap + 1]>>,
     <<"select", [table |-> "users", columns |-> <<characters("user_id")>>,
                  where |-> <<<<characters("user_id"), 102>>>>]>>,
     <<"select", [table |-> "users", where |-> <<<<characters("id"), 1>>>>,
                  order_by |-> characters("user_id"), offset |-> 0]>>,
     <<"insert", [table |-> "users",
                  data |-> <<<<characters("id"), <<"v1">>>>>>]>>,
     <<"update", [table |-> "users",
                  data |-> <<<<characters("id"), <<"v1">>>>>>,
                  where |-> <<<<characters("id"), <<"v1">>>>>>]>>,
     <<"update", [table |-> "users",
                  data |-> <<<<<<"i", ";">>, <<"v1">>>>>>]>>,
     <<"delete", [table |-> "users"]>>,
     <<"delete", [table |-> "orders",
                  where |-> <<<<characters("id"), <<"v1">>>>>>]>>,
     <<"query", [sql |-> <<"SELECT", " 1">>]>>,
     <<"query", [sql |-> <<"DELETE", " FROM users">>]>>,
     <<"query", EmptyMap>>,
     <<"get_role_info", EmptyMap>>,
     <<"reload_permissions", EmptyMap>>,
     <<"unknown_tool", EmptyMap>>,
     <<"drop_table", [table |-> "users"]>>}

\* one call_tool from its first to its last statement
CallTool ==
    /\ Idle
    /\ \E request \in ToolRequests, fail \in Fails, contents \in Contents,
          file \in Sources :
           LET name == request[1]
               reloaded ==
                   IF name = "reload_permissions"
                   THEN reload_permissions_checker(checker, settings,
                                                   permissions, file)
                   ELSE [result |-> Return(None), permissions |-> permissions,
                         checker |-> checker]
               answered(outcome) ==
                   /\ ret' = outcome.ret
                   /\ executed' = outcome.sent
           IN  /\ call' = [op |-> "call_tool", name |-> name,
                           arguments |-> request[2], fail |-> fail,
                           contents |-> contents]
               /\ answered(call_tool(checker,
                                     [tables |-> store, fail |-> fail,
                                      rows |-> contents],
                                     reloaded, name, request[2]))
               /\ document' = IF name = "reload_permissions" THEN file
                              ELSE document
               /\ permissions' = reloaded.permissions
               /\ checker' = reloaded.checker
               /\ UNCHANGED <<settings, store>>

ListTools ==
    /\ Idle
    /\ call' = [op |-> "list_tools"]
    /\ ret' = Return(list_tools(checker))
    /\ UNCHANGED <<document, settings, permissions, checker, store, executed>>

\* select up to its first await: check_permission, then the probe is sent
SelectBegin ==
    /\ Idle
    /\ \E request \in {r \in ToolRequests : r[1] = "select"},
          fail \in Fails, contents \in Contents :
           LET allowed == check_permission(checker, "read", request[2].table)
           IN  /\ call' = [op |-> "select", arguments |-> request[2],
                           fail |-> fail, contents |-> contents,
                           sessions |-> <<checker>>,
                           pc |-> IF Returned(allowed) THEN "table_exists"
                                  ELSE "done"]
               /\ ret' = allowed
               /\ executed' = IF Returned(allowed)
                              THEN <<table_exists_statement(request[2].table)>>
                              ELSE << >>
    /\ UNCHANGED <<document, settings, permissions, checker, store>>

\* select from the answer of the probe to its second await: the statement is
\* built, filtered and limited, and sent
SelectBuild ==
    /\ call.op = "select"
    /\ call.pc = "table_exists"
    /\ LET arguments == call.arguments
           optional(key) == IF key \in DOMAIN arguments
                            THEN Some(arguments[key]) ELSE None
           table == arguments.table
           limit == optional("limit")
           built == build_select_query(characters(table), optional("columns"),
                                       optional("where"), optional("order_by"),
                                       limit, get(arguments, "offset", 0))
           query == with_row_limit(
                        with_row_filter(built.value.query, table,
                                        optional("where"),
                                        get_row_filter(checker, table)),
                        limit, apply_row_limit(checker, limit))
           raised == IF call.fail = 1 THEN Some(StoreError)
                     ELSE IF table \notin store THEN Some(DoesNotExist(table))
                     ELSE IF ~ Returned(built) THEN Some(built)
                     ELSE None
       IN  IF ~ IsNone(raised)
           THEN /\ call' = [call EXCEPT !.pc = "done"]
                /\ ret' = Get(raised)
                /\ UNCHANGED executed
           ELSE /\ call' = [call EXCEPT !.pc = "execute_query",
                                        !.sessions = Append(@, checker)]
                /\ executed' = Append(executed,
                                   Statement(query, built.value.params, "all"))
                /\ UNCHANGED ret
    /\ UNCHANGED <<document, settings, permissions, checker, store>>

\* select from the answer of the statement to its return: the columns of the
\* rows are filtered
SelectFinish ==
    /\ call.op = "select"
    /\ call.pc = "execute_query"
    /\ LET filtered_results ==
               filter_result_columns(checker, call.arguments.table,
                                     fetch_all(call.contents, executed[2]))
       IN  IF call.fail = 2
           THEN /\ call' = [call EXCEPT !.pc = "done"]
                /\ ret' = Failure(StoreError.message)
           ELSE /\ call' = [call EXCEPT !.pc = "done",
                                        !.sessions = Append(@, checker)]
                /\ ret' = Return([success |-> TRUE,
                                  count |-> Len(filtered_results),
                                  data |-> _format_results(filtered_results)])
    /\ UNCHANGED <<document, settings, permissions, checker, store, executed>>

\* the reload_permissions_checker() of another tool call, run while the
\* select waits for the store
Reload ==
    /\ call.op = "select"
    /\ call.pc \in {"table_exists", "execute_query"}
    /\ \E file \in Sources :
           LET reloaded == reload_permissions_checker(checker, settings,
                                                      permissions, file)
           IN  /\ document' = file
               /\ permissions' = reloaded.permissions
               /\ checker' = reloaded.checker
    /\ UNCHANGED <<settings, store, executed, call, ret>>

NextServer ==
    \/ CallTool
    \/ ListTools
    \/ SelectBegin
    \/ SelectBuild
    \/ SelectFinish
    \/ Reload
    \/ (call.op = "select" => call.pc = "done") /\ Respond

SpecServer == InitFacade /\ [][NextServer]_vars

----------------------------------------------------------------------------
(* C21: call_tool never raises *)

\* the JSON document of the one text a tool call answered with
Answer == ret.value[1].text.json

\* what C21 says of the response of a tool call
Answered ==
    /\ Returned(ret)
    /\ Len(ret.value) = 1
    /\ ret.value[1].type = "text"
    /\ "success" \in DOMAIN Answer
    /\ Answer.success = FALSE =>
           ("error" \in DOMAIN Answer /\ Len(Answer.error) > 0)
    /\ call.name \notin {"query", "list_tables", "describe_table",
                         "select", "insert", "update", "delete",
                         "get_role_info", "reload_permissions"}
           => /\ Answer.success = FALSE
              /\ Answer.error = <<"Unknown tool: ", call.name>>
    /\ (/\ call.name \in {"describe_table", "select", "insert", "update",
                          "delete"}
        /\ \/ ~ Returned(check_permission(
                   checker,
                   IF call.name \in {"describe_table", "select"}
                   THEN "read" ELSE call.name,
                   call.arguments.table))
           \/ call.arguments.table \notin store
           \/ call.fail > 0
           \/ call.arguments.table = "users;")
           => Answer.success = FALSE
    /\ (call.name = "query"
          /\ \/ ~ Returned(check_permission(checker, "query", ""))
             \/ ~ startswith_SELECT(get(call.arguments, "sql", << >>)))
           => Answer.success = FALSE
    /\ (call.name = "list_tables" /\ call.fail = 1) => Answer.success = FALSE
    /\ (call.name = "reload_permissions" /\ document = Unparsable)
           => Answer.success = FALSE

\* C21: call_tool never raises: every call answers with exactly one text
\* content; for an unknown tool, a permission denial, an invalid identifier,
\* a rejected raw query or a store failure the text is JSON with success
\* false and an error (for an unknown tool "Unknown tool: <name>"); and the
\* failing call leaves the configuration and the session as they were, so
\* that the next call is served from them.
C21_CallToolNeverRaises ==
    [][call'.op = "call_tool" =>
          /\ Answered'
          /\ Answer'.success = FALSE
                => UNCHANGED <<settings, permissions, checker, store>>]_vars

\* a reload failed on an unparsable file, and a later select was answered
\* with success
C21_Witness ==
    /\ call.op = "call_tool"
    /\ call.name = "select"
    /\ Answered
    /\ Answer.success = TRUE
    /\ document = Unparsable

----------------------------------------------------------------------------
(* C22: the tools list_tools offers in the direct-SQL mode *)

\* C22: in the direct-SQL mode list_tools returns, for every role,
\* list_tables, describe_table, select, insert, update, delete, get_role_info
\* and reload_permissions, and it returns query exactly when
\* can_execute_raw_query() is true.
C22_ToolsListed ==
    call.op = "list_tools" =>
        /\ \A name \in {"list_tables", "describe_table", "select", "insert",
                        "update", "delete", "get_role_info",
                        "reload_permissions"} : Contains(ret.value, name)
        /\ Contains(ret.value, "query") <=> can_execute_raw_query(checker)

----------------------------------------------------------------------------
(* C29: a reload whose source cannot be read *)

\* C29: when reading the permissions source fails during a reload, so that
\* reload_permissions raises, the process-wide configuration and the shared
\* checker (its permissions, resolved role, identity fields and row cap) are
\* what they were before the reload.
C29_FailedReloadChangesNothing ==
    [][(\/ /\ call'.op = "call_tool"
           /\ call'.name = "reload_permissions"
           /\ Answer'.success = FALSE
        \/ /\ call.op = "select"
           /\ call' = call
           /\ document' = Unparsable)
          => UNCHANGED <<permissions, checker>>]_vars

\* a reload failed while the configuration came from a file with roles
C29_Witness ==
    /\ call.op = "call_tool"
    /\ call.name = "reload_permissions"
    /\ Answer.success = FALSE
    /\ document = Unparsable
    /\ "writer" \in DOMAIN permissions.roles
    /\ checker.permissions = permissions

----------------------------------------------------------------------------
(* C24: a select in flight during a reload *)

\* C24: a select in flight while another call reloads the permissions sees
\* one configuration: its permission check, its row filter and row limit,
\* and the filtering of its result columns are evaluated against the same
\* session.
C24_OneSnapshotPerCall ==
    (call.op = "select" /\ call.pc = "done") =>
        \A i, j \in 1..Len(call.sessions) :
            call.sessions[i] = call.sessions[j]

----------------------------------------------------------------------------
(* C28: the columns a role may not see *)

\* C28: for a role that is not admin and has restricted columns on the
\* table, the response of select is the same for any two contents of the
\* store that agree on the allowed columns, whichever columns, where and
\* order_by the caller passes.
C28_HiddenColumnsDoNotInfluence ==
    (/\ call.op = "call_tool"
     /\ call.name = "select"
     /\ ~ is_admin(checker)
     /\ ~ IsNone(get_allowed_columns(checker, call.arguments.table))) =>
        \A other \in Contents :
            filter_result_columns(checker, call.arguments.table, other)
                = filter_result_columns(checker, call.arguments.table,
                                        call.contents)
            => call_tool(checker,
                         [tables |-> store, fail |-> call.fail, rows |-> other],
                         [result |-> Return(None), permissions |-> permissions,
                          checker |-> checker],
                         call.name, call.arguments).ret = ret

=============================================================================
